---- MODULE Spec2Model ----
(***************************************************************************)
(* etterskrift: an interpreter for a small PostScript-like stack language. *)
(*                                                                         *)
(* The module models the interpreter of src/src/main.rs (State, execute,   *)
(* the REPL loop of main), the value model of src/src/stack.rs (Item and   *)
(* its coercions, Stack) and the builtin operator table of                 *)
(* src/src/operators.rs.  Program text is kept as text: a Block holds the  *)
(* string that `}` joins from the captured tokens, and execute lexes that  *)
(* string again every time the block runs.                                 *)
(***************************************************************************)
EXTENDS Integers, Sequences, FiniteSets, TLC

(***************************************************************************)
(* Bounds of the model.                                                    *)
(***************************************************************************)
\* Program units (REPL lines) read in one session.
MaxUnits == 4
\* Nesting of execute invocations the model follows (the host call stack).
MaxDepth == 4

(***************************************************************************)
(* Program constants.                                                      *)
(***************************************************************************)
\* i32::MAX; i32::MIN is -I32Max - 1.
I32Max == 2147483647
\* The radix range accepted by a radix literal.
RadixMin == 2
RadixMax == 36
\* f32 holds 24 bits of mantissa: integers below 2^24 are exact.
F32Mantissa == 16777216

I32Min == (-I32Max) - 1

(***************************************************************************)
(* Text.  A program text is a string; Char picks one character of it.      *)
(***************************************************************************)
Char(str, i) == SubSeq(str, i, i)

RECURSIVE HasChar(_, _, _)
HasChar(str, c, i) ==
    IF i > Len(str) THEN FALSE
    ELSE IF Char(str, i) = c THEN TRUE
    ELSE HasChar(str, c, i + 1)

\* str::find: the position of the first c in str, 0 if there is none.
RECURSIVE find(_, _, _)
find(str, c, i) ==
    IF i > Len(str) THEN 0
    ELSE IF Char(str, i) = c THEN i
    ELSE find(str, c, i + 1)


\* char::to_digit: the value of c as a digit, -1 if c is none.
to_digit(c) ==
    LET lo == find("0123456789abcdefghijklmnopqrstuvwxyz", c, 1)
        up == find("0123456789ABCDEFGHIJKLMNOPQRSTUVWXYZ", c, 1)
    IN  IF lo > 0 THEN lo - 1 ELSE IF up > 0 THEN up - 1 ELSE -1

IsDecimalDigit(c) == to_digit(c) >= 0 /\ to_digit(c) <= 9

\* [String]::join(" "): the items with one space between neighbours.
RECURSIVE join(_)
join(items) ==
    IF items = <<>> THEN ""
    ELSE IF Len(items) = 1 THEN items[1]
    ELSE items[1] \o " " \o join(Tail(items))

(***************************************************************************)
(* The lexer.  PostscriptParser (grammar.pest) turns a program text into   *)
(* its items: the maximal runs of non-blank characters, each classified by *)
(* its shape.                                                              *)
(***************************************************************************)
RECURSIVE LexFrom(_, _, _, _)
LexFrom(code, i, cur, acc) ==
    IF i > Len(code)
    THEN IF cur = "" THEN acc ELSE Append(acc, cur)
    ELSE IF Char(code, i) = " "
         THEN LexFrom(code, i + 1, "", IF cur = "" THEN acc ELSE Append(acc, cur))
         ELSE LexFrom(code, i + 1, cur \o Char(code, i), acc)

\* PostscriptParser::parse(Rule::program, code): the items of the program.
parse(code) == LexFrom(code, 1, "", <<>>)

\* The characters i..j of str are decimal digits.
RECURSIVE AllDecimal(_, _, _)
AllDecimal(str, i, j) ==
    i > j \/ (IsDecimalDigit(Char(str, i)) /\ AllDecimal(str, i + 1, j))

\* pest's Pair::as_rule for an item of the program.
as_rule(tok) ==
    LET c == Char(tok, 1)
        d == IF Len(tok) > 1 THEN Char(tok, 2) ELSE ""
    IN  IF tok \in {"{", "}", "[", "]"} THEN "ops"
        ELSE IF c = "/" THEN "key"
        ELSE IF AllDecimal(tok, 1, find(tok, "#", 1) - 1) /\ find(tok, "#", 1) > 1
             THEN "radixnumber"
        ELSE IF IsDecimalDigit(c) THEN "number"
        ELSE IF c \in {"+", "-", "."} /\ (IsDecimalDigit(d) \/ d = ".") THEN "number"
        ELSE "ident"

(***************************************************************************)
(* Item: the values of the language (stack.rs).  Each variant is a record  *)
(* with its own fields, so values of two variants are never equal.         *)
(***************************************************************************)
Number(i) == [type |-> "Number", int |-> i]
\* A Float is the rational num/den in lowest terms, den > 0; den = 0 holds
\* the values that are no number: 1/0 is +inf, -1/0 is -inf, 0/0 is NaN.
Float(n, d) == [type |-> "Float", num |-> n, den |-> d]
Bool(b) == [type |-> "Bool", bool |-> b]
Dict(m) == [type |-> "Dict", map |-> m]
Key(str) == [type |-> "Key", name |-> str]
Block(str) == [type |-> "Block", code |-> str]
Mark == [type |-> "Mark"]
Array(items) == [type |-> "Array", items |-> items]

\* HashMap::new(): the dictionary with no binding.
EmptyMap == [k \in {} |-> Mark]

\* HashMap::insert: bind k to v, replacing an earlier binding of k.
insert(map, k, v) == [x \in DOMAIN map \cup {k} |-> IF x = k THEN v ELSE map[x]]

(***************************************************************************)
(* Numbers.  Number holds an i32, and the arithmetic below never leaves    *)
(* the i32 range on the way.                                               *)
(***************************************************************************)
Abs(i) == IF i < 0 THEN -i ELSE i

RECURSIVE Gcd(_, _)
Gcd(a, b) == IF b = 0 THEN a ELSE Gcd(b, a % b)

RECURSIVE Pow(_, _)
Pow(b, e) == IF e = 0 THEN 1 ELSE b * Pow(b, e - 1)

RECURSIVE IsPowerOfTwo(_)
IsPowerOfTwo(d) == d = 1 \/ (d > 1 /\ d % 2 = 0 /\ IsPowerOfTwo(d \div 2))

\* a + b leaves the i32 range.
AddOverflows(a, b) ==
    \/ (b > 0 /\ a > I32Max - b)
    \/ (b < 0 /\ a < I32Min - b)

\* i32::wrapping_add: a + b modulo 2^32, as a signed value.
wrapping_add(a, b) ==
    IF b > 0 /\ a > I32Max - b THEN ((a - I32Max) - 1) + ((b - I32Max) - 1)
    ELSE IF b < 0 /\ a < I32Min - b THEN ((a + I32Max) + 1) + ((b + I32Max) + 1)
    ELSE a + b

\* a * b leaves the i32 range.
MulOverflows(a, b) ==
    IF a = 0 \/ b = 0 THEN FALSE
    ELSE IF a = I32Min \/ b = I32Min THEN ~(a = 1 \/ b = 1)
    ELSE IF (a > 0) = (b > 0) THEN Abs(a) > I32Max \div Abs(b)
    ELSE LET pos == IF a > 0 THEN a ELSE b
             neg == IF a > 0 THEN b ELSE a
         IN  neg < ((I32Min + pos) - 1) \div pos

\* i32::wrapping_mul: a * b modulo 2^32 as a signed value, computed on the
\* 16-bit halves of the two's complement operands so that no intermediate
\* value needs more than 32 bits.
wrapping_mul(a, b) ==
    LET half       == 65536
        lo(x)      == x % half
        hi(x)      == (x \div half) % half
        part(x, y) == ((x % 256) * y) + ((((x \div 256) * y) % 256) * 256)
        carry      == (part(lo(a), lo(b)) \div half) + (((lo(a) \div 256) * lo(b)) \div 256)
        low        == part(lo(a), lo(b)) % half
        high       == (carry + part(lo(a), hi(b)) + part(hi(a), lo(b))) % half
    IN  IF high >= 32768 THEN ((high - half) * half) + low
        ELSE (high * half) + low

\* The digits of str from position i on, read in the given radix and summed
\* downwards as from_str_radix does, so that i32::MIN is reached without
\* overflow: ok is FALSE for an empty run, a digit outside the radix or a
\* value below i32::MIN; val is minus the value read.
RECURSIVE DigitsFrom(_, _, _, _, _)
DigitsFrom(str, i, radix, acc, seen) ==
    IF i > Len(str) THEN [ok |-> seen, val |-> acc]
    ELSE LET d == to_digit(Char(str, i))
         IN  IF d < 0 \/ d >= radix THEN [ok |-> FALSE, val |-> 0]
             ELSE IF acc < ((I32Min + d) + (radix - 1)) \div radix
                  THEN [ok |-> FALSE, val |-> 0]
             ELSE DigitsFrom(str, i + 1, radix, (acc * radix) - d, TRUE)

\* i32::from_str_radix (and str::parse::<i32> with radix 10): an optional
\* sign, then digits of the radix; Err on anything else and on overflow.
from_str_radix(str, radix) ==
    LET c     == IF Len(str) > 0 THEN Char(str, 1) ELSE ""
        first == IF c \in {"+", "-"} THEN 2 ELSE 1
        r     == DigitsFrom(str, first, radix, 0, FALSE)
    IN  IF ~r.ok THEN [ok |-> FALSE, val |-> 0]
        ELSE IF c = "-" THEN [ok |-> TRUE, val |-> r.val]
        ELSE IF r.val = I32Min THEN [ok |-> FALSE, val |-> 0]
        ELSE [ok |-> TRUE, val |-> -r.val]

\* str::parse::<u32> of the radix of a radix literal: Err above u32::MAX
\* (4294967295). val is the value, or i32::MAX when the value is larger: only
\* its place against the radix range is read.
RECURSIVE StripZeros(_)
StripZeros(str) ==
    IF Len(str) > 1 /\ Char(str, 1) = "0"
    THEN StripZeros(SubSeq(str, 2, Len(str)))
    ELSE str

RECURSIVE DigitsLeq(_, _, _)
DigitsLeq(a, b, i) ==
    IF i > Len(a) THEN TRUE
    ELSE IF to_digit(Char(a, i)) < to_digit(Char(b, i)) THEN TRUE
    ELSE IF to_digit(Char(a, i)) > to_digit(Char(b, i)) THEN FALSE
    ELSE DigitsLeq(a, b, i + 1)

parse_u32(str) ==
    LET digits == StripZeros(str)
        small  == from_str_radix(digits, 10)
        fits   == \/ Len(digits) < 10
                  \/ (Len(digits) = 10 /\ DigitsLeq(digits, "4294967295", 1))
    IN  IF small.ok THEN small ELSE [ok |-> fits, val |-> I32Max]

(***************************************************************************)
(* Floats.  A Float holds an f32.  The model follows the f32 values that a *)
(* rational num/den with a power of two as den and |num| < 2^24 names      *)
(* exactly, and +inf, -inf and NaN; on these f32 arithmetic is exact.  A   *)
(* result outside them (a rounded one, or the negative zero) ends the run  *)
(* as "Unmodelled": the model follows it no further.                       *)
(***************************************************************************)
\* The Float n/d in lowest terms.
Ratio(n, d) ==
    LET g == Gcd(Abs(n), Abs(d))
    IN  IF d < 0 THEN Float((-n) \div g, (-d) \div g) ELSE Float(n \div g, d \div g)

PosInf == Float(1, 0)
NegInf == Float(-1, 0)
NaN == Float(0, 0)

\* The operands are small enough for the model to multiply them.
Small(f) == Abs(f.num) <= 32768 /\ f.den <= 32768

\* A float result the model follows (ok), or one it does not.
Followed(f) ==
    [ok  |-> f.den = 0 \/ (IsPowerOfTwo(f.den) /\ Abs(f.num) < F32Mantissa),
     val |-> f]
NotFollowed == [ok |-> FALSE, val |-> NaN]

\* -1, 0 or 1: the sign of a float that is not NaN.
Sign(f) == IF f.num > 0 THEN 1 ELSE IF f.num < 0 THEN -1 ELSE 0

\* f32 * f32.
fmul(a, b) ==
    IF a = NaN \/ b = NaN THEN Followed(NaN)
    ELSE IF a.den = 0 \/ b.den = 0
         THEN IF Sign(a) = 0 \/ Sign(b) = 0 THEN Followed(NaN)
              ELSE Followed(IF Sign(a) = Sign(b) THEN PosInf ELSE NegInf)
    ELSE IF ~Small(a) \/ ~Small(b) THEN NotFollowed
    ELSE IF (Sign(a) = 0 /\ Sign(b) < 0) \/ (Sign(b) = 0 /\ Sign(a) < 0) THEN NotFollowed
    ELSE Followed(Ratio(a.num * b.num, a.den * b.den))

\* f32 / f32.
fdiv(a, b) ==
    IF a = NaN \/ b = NaN THEN Followed(NaN)
    ELSE IF a.den = 0
         THEN IF b.den = 0 THEN Followed(NaN)
              ELSE Followed(IF Sign(b) >= 0 THEN a ELSE Float(-a.num, 0))
    ELSE IF b.den = 0
         THEN IF (Sign(a) >= 0 /\ Sign(b) > 0) \/ (Sign(a) < 0 /\ Sign(b) < 0)
              THEN Followed(Float(0, 1)) ELSE NotFollowed
    ELSE IF Sign(b) = 0
         THEN Followed(IF Sign(a) = 0 THEN NaN ELSE IF Sign(a) > 0 THEN PosInf ELSE NegInf)
    ELSE IF ~Small(a) \/ ~Small(b) THEN NotFollowed
    ELSE IF Sign(a) = 0 /\ Sign(b) < 0 THEN NotFollowed
    ELSE Followed(Ratio(a.num * b.den, a.den * b.num))

\* The integer square root of n >= 0, searched upwards from r.
RECURSIVE Isqrt(_, _)
Isqrt(n, r) == IF (r + 1) * (r + 1) > n THEN r ELSE Isqrt(n, r + 1)

\* f32::sqrt.
fsqrt(a) ==
    IF a = NaN \/ a = NegInf THEN Followed(NaN)
    ELSE IF a = PosInf THEN Followed(PosInf)
    ELSE IF Sign(a) < 0 THEN Followed(NaN)
    ELSE IF ~Small(a) THEN NotFollowed
    ELSE LET rn == Isqrt(a.num, 0)
             rd == Isqrt(a.den, 0)
         IN  IF rn * rn = a.num /\ rd * rd = a.den
             THEN Followed(Ratio(rn, rd)) ELSE NotFollowed

\* `f as i32`: truncation toward zero, saturating, NaN to 0.
f32_as_i32(f) ==
    IF f = NaN THEN 0
    ELSE IF f = PosInf THEN I32Max
    ELSE IF f = NegInf THEN I32Min
    ELSE IF f.num >= 0 THEN f.num \div f.den
    ELSE -((-f.num) \div f.den)

\* `i as f32`.
i32_as_f32(i) ==
    IF Abs(i + (IF i < 0 THEN 1 ELSE 0)) < F32Mantissa
    THEN Followed(Float(i, 1)) ELSE NotFollowed

\* str::parse::<f32> on the text of a number item: an optional sign, digits
\* with at most one point among them, at least one digit.  ok is Rust's Ok;
\* val.ok tells whether the model follows the value.
parse_f32(str) ==
    LET c      == IF Len(str) > 0 THEN Char(str, 1) ELSE ""
        body   == IF c \in {"+", "-"} THEN SubSeq(str, 2, Len(str)) ELSE str
        point  == find(body, ".", 1)
        whole  == IF point = 0 THEN body ELSE SubSeq(body, 1, point - 1)
        frac   == IF point = 0 THEN "" ELSE SubSeq(body, point + 1, Len(body))
        digits == whole \o frac
        shape  == Len(digits) > 0 /\ AllDecimal(digits, 1, Len(digits))
        mag    == from_str_radix(digits, 10)
    IN  IF ~shape THEN [ok |-> FALSE, val |-> NotFollowed]
        ELSE IF ~mag.ok \/ Len(frac) > 9 \/ (c = "-" /\ mag.val = 0)
             THEN [ok |-> TRUE, val |-> NotFollowed]
        ELSE [ok |-> TRUE,
              val |-> Followed(Ratio(IF c = "-" THEN -mag.val ELSE mag.val,
                                     Pow(10, Len(frac))))]

(***************************************************************************)
(* The coercions of Item (stack.rs).  res is "Ok" with the value in val,   *)
(* "TypeCheck" for the Err a coercion returns, "Panic" where it panics.    *)
(***************************************************************************)
as_int(item) ==
    IF item.type = "Number" THEN [res |-> "Ok", val |-> item.int]
    ELSE [res |-> "TypeCheck", val |-> 0]

as_float(item) ==
    IF item.type = "Number"
    THEN LET f == i32_as_f32(item.int)
         IN  [res |-> IF f.ok THEN "Ok" ELSE "Unmodelled", val |-> f.val]
    ELSE IF item.type = "Float" THEN [res |-> "Ok", val |-> item]
    ELSE [res |-> "TypeCheck", val |-> NaN]

as_key(item) ==
    IF item.type = "Key" THEN [res |-> "Ok", val |-> item.name]
    ELSE [res |-> "TypeCheck", val |-> ""]

as_block(item) ==
    IF item.type = "Block" THEN [res |-> "Ok", val |-> item.code]
    ELSE [res |-> "TypeCheck", val |-> ""]

as_array(item) ==
    IF item.type = "Array" THEN [res |-> "Ok", val |-> item.items]
    ELSE [res |-> "Panic", val |-> <<>>]

as_bool(item) ==
    IF item.type = "Bool" THEN [res |-> "Ok", val |-> item.bool]
    ELSE [res |-> "Panic", val |-> FALSE]

into_dict(item) ==
    IF item.type = "Dict" THEN [res |-> "Ok", val |-> item.map]
    ELSE [res |-> "Panic", val |-> EmptyMap]

(***************************************************************************)
(* State (main.rs) as a record, with the interpreter's position beside it: *)
(*   call_stack      the invocations in progress, the innermost last: an   *)
(*                   "execute" frame holds the items of its program and    *)
(*                   the index pc of the next one; a "repeat", "for" or    *)
(*                   "forall" frame holds the loop of that operator while  *)
(*                   its block runs above it;                              *)
(*   result          "Running" while execute runs, the kind of an Err      *)
(*                   from the return that raised it on, "Ok" when the      *)
(*                   top-level execute returned Ok, "None" before the      *)
(*                   first unit, "Panic" when the process aborted;         *)
(*   overflow_checks whether the build panics on integer overflow (a debug *)
(*                   build) or wraps (a release build).                    *)
(***************************************************************************)
\* State::new().
new(checks) ==
    [operand_stack |-> <<>>, dictionary |-> EmptyMap, dict_stack |-> <<>>,
     block_stack |-> <<>>, block_marks |-> 0,
     call_stack |-> <<>>, result |-> "None", overflow_checks |-> checks]

ExecuteFrame(items) == [kind |-> "execute", items |-> items, pc |-> 1]
RepeatFrame(proc, n) == [kind |-> "repeat", proc |-> proc, i |-> 0, n |-> n]
\* (init..=limit).step_by(step): next is the value the iterator yields next,
\* done tells that it is exhausted; huge is a step of 2^64 + inc (inc < 0).
ForFrame(proc, init, limit, step, huge) ==
    [kind |-> "for", proc |-> proc, next |-> init, limit |-> limit,
     step |-> step, huge |-> huge, done |-> init > limit]
ForallFrame(proc, array) == [kind |-> "forall", proc |-> proc, array |-> array]

Depth(s) == Len(s.call_stack)
Top(s) == s.call_stack[Depth(s)]

\* `return Err(..)`: result holds the Err while the invocations in progress
\* hand it up (Propagate below).  A panic ends the process at once, and so
\* does the model where it follows a run no further.
Raise(s, e) ==
    IF e \in {"Panic", "Unmodelled"}
    THEN [s EXCEPT !.call_stack = <<>>, !.result = e]
    ELSE [s EXCEPT !.result = e]

\* Stack::push on the operand stack.
push(s, item) == [s EXCEPT !.operand_stack = Append(@, item)]

\* The operand stack without its n topmost items.
Drop(s, n) ==
    [s EXCEPT !.operand_stack = SubSeq(@, 1, Len(@) - n)]

Coerce(item, kind) ==
    CASE kind = "int"   -> as_int(item)
      [] kind = "float" -> as_float(item)
      [] kind = "key"   -> as_key(item)
      [] kind = "block" -> as_block(item)
      [] kind = "array" -> as_array(item)
      [] kind = "bool"  -> as_bool(item)
      [] kind = "dict"  -> into_dict(item)
      [] OTHER          -> [res |-> "Ok", val |-> item]

\* `stack.pop()?.as_kind()?` once for each of kinds, in order: Stack::pop is
\* an Err on the empty stack, and an Err (or a panic) leaves the items popped
\* so far popped.  ok tells that every pop and coercion succeeded, vals holds
\* their values and s is the state after them.
RECURSIVE pops(_, _, _)
pops(s, kinds, vals) ==
    IF kinds = <<>> THEN [ok |-> TRUE, s |-> s, vals |-> vals]
    ELSE IF s.operand_stack = <<>>
         THEN [ok |-> FALSE, s |-> Raise(s, "StackUnderflow"), vals |-> vals]
    ELSE LET item == s.operand_stack[Len(s.operand_stack)]
             c    == Coerce(item, Head(kinds))
         IN  IF c.res # "Ok"
             THEN [ok |-> FALSE, s |-> Raise(Drop(s, 1), c.res), vals |-> vals]
             ELSE pops(Drop(s, 1), Tail(kinds), Append(vals, c.val))

\* execute's entry: the program is parsed and its items run from the first.
\* The model follows MaxDepth invocations in progress and no more.
enter(s, code) ==
    IF Depth(s) >= MaxDepth THEN Raise(s, "Unmodelled")
    ELSE [s EXCEPT !.call_stack = Append(@, ExecuteFrame(parse(code)))]

\* State::contains_key.
RECURSIVE contains_key_from(_, _, _)
contains_key_from(s, key, i) ==
    IF i = 0 THEN FALSE
    ELSE IF key \in DOMAIN s.dict_stack[i] THEN TRUE
    ELSE contains_key_from(s, key, i - 1)

contains_key(s, key) ==
    IF key \in DOMAIN s.dictionary THEN TRUE
    ELSE contains_key_from(s, key, Len(s.dict_stack))

\* The enclosing dictionaries searched from the oldest one: iter() without
\* rev().
get_from_oldest_first(s, key, i) ==
    IF \E j \in 1..i : key \in DOMAIN s.dict_stack[j]
    THEN LET first == CHOOSE j \in 1..i :
                         /\ key \in DOMAIN s.dict_stack[j]
                         /\ \A k \in 1..(j - 1) : key \notin DOMAIN s.dict_stack[k]
         IN  [found |-> TRUE, item |-> s.dict_stack[first][key]]
    ELSE [found |-> FALSE, item |-> Mark]
\* State::get: found tells Some from None.
RECURSIVE get_from(_, _, _)
get_from(s, key, i) ==
    IF i = 0 THEN [found |-> FALSE, item |-> Mark]
    ELSE IF key \in DOMAIN s.dict_stack[i]
         THEN [found |-> TRUE, item |-> s.dict_stack[i][key]]
    ELSE get_from(s, key, i - 1)

get(s, key) ==
    IF key \in DOMAIN s.dictionary
    THEN [found |-> TRUE, item |-> s.dictionary[key]]
    ELSE get_from(s, key, Len(s.dict_stack))

(***************************************************************************)
(* The builtin operators (operators.rs).  Each takes the state it is       *)
(* called on and gives the state it returns with; an Err is in result.     *)
(***************************************************************************)
\* An i32 result: the value, or on overflow a panic under overflow checks
\* and the wrapped value without them.
Arith(s, overflows, exact, wrapped) ==
    IF ~overflows THEN push(s, Number(exact))
    ELSE IF s.overflow_checks THEN Raise(s, "Panic")
    ELSE push(s, Number(wrapped))

\* A float result, which the model follows or not.
FloatResult(s, f) == IF f.ok THEN push(s, f.val) ELSE Raise(s, "Unmodelled")

SubOverflows(a, b) == IF b = I32Min THEN a >= 0 ELSE AddOverflows(a, -b)
wrapping_sub(a, b) == IF b = I32Min THEN wrapping_add(a, I32Min) ELSE wrapping_add(a, -b)

add(s) ==
    LET p == pops(s, <<"int", "int">>, <<>>)
        a == p.vals[1]
        b == p.vals[2]
    IN  IF ~p.ok THEN p.s
        ELSE Arith(p.s, AddOverflows(a, b),
                   IF AddOverflows(a, b) THEN 0 ELSE a + b, wrapping_add(a, b))

sub(s) ==
    LET p  == pops(s, <<"int", "int">>, <<>>)
        n2 == p.vals[1]
        n1 == p.vals[2]
    IN  IF ~p.ok THEN p.s
        ELSE Arith(p.s, SubOverflows(n1, n2),
                   IF SubOverflows(n1, n2) THEN 0 ELSE n1 - n2, wrapping_sub(n1, n2))

mul(s) ==
    LET p  == pops(s, <<"item", "item">>, <<>>)
        a  == p.vals[1]
        b  == p.vals[2]
        fa == as_float(a)
        fb == as_float(b)
    IN  IF ~p.ok THEN p.s
        ELSE IF as_int(a).res = "Ok" /\ as_int(b).res = "Ok"
             THEN Arith(p.s, MulOverflows(a.int, b.int),
                        IF MulOverflows(a.int, b.int) THEN 0 ELSE a.int * b.int,
                        wrapping_mul(a.int, b.int))
        ELSE IF fa.res = "TypeCheck" \/ fb.res = "TypeCheck"
             THEN Raise(p.s, "TypeCheck")
        ELSE IF fa.res # "Ok" \/ fb.res # "Ok" THEN Raise(p.s, "Unmodelled")
        ELSE FloatResult(p.s, fmul(fa.val, fb.val))

div(s) ==
    LET p == pops(s, <<"float", "float">>, <<>>)
    IN  IF ~p.ok THEN p.s ELSE FloatResult(p.s, fdiv(p.vals[2], p.vals[1]))

neg(s) ==
    LET p == pops(s, <<"int">>, <<>>)
        n == p.vals[1]
    IN  IF ~p.ok THEN p.s
        ELSE Arith(p.s, n = I32Min, IF n = I32Min THEN 0 ELSE -n, I32Min)

sqrt(s) ==
    LET p == pops(s, <<"float">>, <<>>)
    IN  IF ~p.ok THEN p.s ELSE FloatResult(p.s, fsqrt(p.vals[1]))

\* random_value is what the hasher of a fresh RandomState gives, as an i32.
rand(s, random_value) == push(s, Number(random_value))

exch(s) ==
    LET n == Len(s.operand_stack)
    IN  IF n < 2 THEN Raise(Drop(s, n), "Panic")
        ELSE push(push(Drop(s, 2), s.operand_stack[n]), s.operand_stack[n - 1])

\* The copy is not pushed: the popped value alone goes back.
dup_returns_one(s) ==
    LET p == pops(s, <<"item">>, <<>>)
    IN  IF ~p.ok THEN p.s ELSE push(p.s, p.vals[1])

dup(s) ==
    LET p == pops(s, <<"item">>, <<>>)
    IN  IF ~p.ok THEN p.s ELSE push(push(p.s, p.vals[1]), p.vals[1])

pop(s) == IF s.operand_stack = <<>> THEN s ELSE Drop(s, 1)

clear(s) == [s EXCEPT !.operand_stack = <<>>]

\* pstack and pdict print and change nothing.
pstack(s) == s

count(s) == push(s, Number(Len(s.operand_stack)))

pdict(s) == s

\* def with the binding written into the enclosing dictionary when there is
\* one.
def_into_enclosing(s) ==
    LET p    == pops(s, <<"item", "item">>, <<>>)
        item == p.vals[1]
        name == p.vals[2]
        n    == Len(s.dict_stack)
    IN  IF ~p.ok THEN p.s
        ELSE IF as_key(name).res # "Ok" THEN Raise(p.s, "TypeCheck")
        ELSE IF n = 0 THEN [p.s EXCEPT !.dictionary = insert(@, as_key(name).val, item)]
        ELSE [p.s EXCEPT !.dict_stack[n] = insert(@, as_key(name).val, item)]
def(s) ==
    LET p    == pops(s, <<"item", "item">>, <<>>)
        item == p.vals[1]
        name == p.vals[2]
    IN  IF ~p.ok THEN p.s
        ELSE IF as_key(name).res # "Ok" THEN Raise(p.s, "TypeCheck")
        ELSE [p.s EXCEPT !.dictionary = insert(@, as_key(name).val, item)]

exec(s) ==
    LET p == pops(s, <<"block">>, <<>>)
    IN  IF ~p.ok THEN p.s ELSE enter(p.s, p.vals[1])

\* repeat and for_loop, array_forall: the loop is a frame of the call stack,
\* and RepeatNext, ForNext and ForallNext below are its iterations.
\* repeat with the loop entered at its second iteration.
repeat_from_one(s) ==
    LET p == pops(s, <<"block", "int">>, <<>>)
    IN  IF ~p.ok THEN p.s
        ELSE [p.s EXCEPT !.call_stack =
                 Append(@, [RepeatFrame(p.vals[1], p.vals[2]) EXCEPT !.i = 1])]

repeat(s) ==
    LET p == pops(s, <<"block", "int">>, <<>>)
    IN  IF ~p.ok THEN p.s
        ELSE [p.s EXCEPT !.call_stack = Append(@, RepeatFrame(p.vals[1], p.vals[2]))]

for_loop(s) ==
    LET p     == pops(s, <<"block", "int", "int", "int">>, <<>>)
        limit == p.vals[2]
        inc   == p.vals[3]
        init  == p.vals[4]
    IN  IF ~p.ok THEN p.s
        ELSE IF inc = 0 THEN Raise(p.s, "Panic")
        ELSE [p.s EXCEPT !.call_stack =
                 Append(@, ForFrame(p.vals[1], init, limit, inc, inc < 0))]

if_cond(s) ==
    LET p == pops(s, <<"block", "bool">>, <<>>)
    IN  IF ~p.ok THEN p.s
        ELSE IF p.vals[2] THEN enter(p.s, p.vals[1]) ELSE p.s

\* ifelse_cond with the two blocks taken for each other.
ifelse_cond_swapped(s) ==
    LET p == pops(s, <<"block", "block", "bool">>, <<>>)
    IN  IF ~p.ok THEN p.s
        ELSE IF p.vals[3] THEN enter(p.s, p.vals[1]) ELSE enter(p.s, p.vals[2])

ifelse_cond(s) ==
    LET p == pops(s, <<"block", "block", "bool">>, <<>>)
    IN  IF ~p.ok THEN p.s
        ELSE IF p.vals[3] THEN enter(p.s, p.vals[2]) ELSE enter(p.s, p.vals[1])

mark(s) == push(s, Mark)

\* The scan for a Mark made from the bottom of the stack: Iterator::position.
position_from_bottom(stack, i) ==
    IF \E j \in 1..i : stack[j].type = "Mark"
    THEN CHOOSE j \in 1..i : stack[j].type = "Mark" /\ \A k \in 1..(j - 1) : stack[k].type # "Mark"
    ELSE 0
\* Iterator::rposition: the index of the topmost Mark, 0 if there is none.
RECURSIVE rposition(_, _)
rposition(stack, i) ==
    IF i = 0 THEN 0
    ELSE IF stack[i].type = "Mark" THEN i
    ELSE rposition(stack, i - 1)

\* array_close with the stack drained before the missing Mark is reported.
array_close_drains_first(s) ==
    LET stack == s.operand_stack
        pos   == rposition(stack, Len(stack))
        items == SubSeq(stack, pos, Len(stack))
    IN  IF pos = 0 THEN Raise([s EXCEPT !.operand_stack = <<>>], "UnmatchedMark")
        ELSE push([s EXCEPT !.operand_stack = SubSeq(stack, 1, pos - 1)],
                  Array(Tail(items)))
array_close(s) ==
    LET stack == s.operand_stack
        pos   == rposition(stack, Len(stack))
        items == SubSeq(stack, pos, Len(stack))
    IN  IF pos = 0 THEN Raise(s, "UnmatchedMark")
        ELSE push([s EXCEPT !.operand_stack = SubSeq(stack, 1, pos - 1)],
                  Array(Tail(items)))

array_length(s) ==
    LET p == pops(s, <<"array">>, <<>>)
    IN  IF ~p.ok THEN p.s ELSE push(p.s, Number(Len(p.vals[1])))

array_forall(s) ==
    LET p == pops(s, <<"block", "array">>, <<>>)
    IN  IF ~p.ok THEN p.s
        ELSE [p.s EXCEPT !.call_stack = Append(@, ForallFrame(p.vals[1], p.vals[2]))]

bool_true(s) == push(s, Bool(TRUE))

bool_false(s) == push(s, Bool(FALSE))

\* Item's derived PartialEq: equal variants with equal contents, where an
\* f32 NaN equals nothing, itself included.
RECURSIVE HoldsNaN(_)
HoldsNaN(item) ==
    IF item.type = "Float" THEN item = NaN
    ELSE IF item.type = "Array"
         THEN \E i \in 1..Len(item.items) : HoldsNaN(item.items[i])
    ELSE IF item.type = "Dict"
         THEN \E k \in DOMAIN item.map : HoldsNaN(item.map[k])
    ELSE FALSE

item_eq(a, b) == a = b /\ ~HoldsNaN(a)

eq(s) ==
    LET p == pops(s, <<"item", "item">>, <<>>)
    IN  IF ~p.ok THEN p.s ELSE push(p.s, Bool(item_eq(p.vals[1], p.vals[2])))

ne(s) ==
    LET p == pops(s, <<"item", "item">>, <<>>)
    IN  IF ~p.ok THEN p.s ELSE push(p.s, Bool(~item_eq(p.vals[1], p.vals[2])))

\* HashMap::with_capacity(n as usize) panics on the capacity a negative n
\* turns into; whether the allocation for a large n succeeds is the host's.
dict_new(s) ==
    LET p == pops(s, <<"int">>, <<>>)
    IN  IF ~p.ok THEN p.s
        ELSE IF p.vals[1] < 0 THEN Raise(p.s, "Panic")
        ELSE push(p.s, Dict(EmptyMap))

dict_begin(s) ==
    LET p == pops(s, <<"dict">>, <<>>)
    IN  IF ~p.ok THEN p.s
        ELSE [p.s EXCEPT !.dictionary = p.vals[1],
                         !.dict_stack = Append(@, p.s.dictionary)]

\* dict_end with the oldest saved dictionary taken, not the newest.
dict_end_takes_oldest(s) ==
    LET n == Len(s.dict_stack)
    IN  IF n = 0 THEN Raise(s, "StackUnderflow")
        ELSE [s EXCEPT !.dictionary = s.dict_stack[1],
                       !.dict_stack = Tail(@)]
dict_end(s) ==
    LET n == Len(s.dict_stack)
    IN  IF n = 0 THEN Raise(s, "StackUnderflow")
        ELSE [s EXCEPT !.dictionary = s.dict_stack[n],
                       !.dict_stack = SubSeq(@, 1, n - 1)]

cvi(s) ==
    LET p    == pops(s, <<"item">>, <<>>)
        elem == p.vals[1]
    IN  IF ~p.ok THEN p.s
        ELSE IF as_int(elem).res = "Ok" THEN push(p.s, Number(elem.int))
        ELSE IF as_float(elem).res = "Ok"
             THEN push(p.s, Number(f32_as_i32(as_float(elem).val)))
        ELSE p.s

\* operators(): the table, each name with the arity operator! is given.
operators ==
    ("add" :> 2) @@ ("sub" :> 2) @@ ("mul" :> 2) @@ ("div" :> 2) @@
    ("neg" :> 1) @@ ("sqrt" :> 1) @@ ("rand" :> 0) @@
    ("exch" :> 2) @@ ("dup" :> 1) @@ ("pop" :> 1) @@ ("clear" :> 0) @@
    ("pstack" :> 0) @@ ("count" :> 0) @@ ("pdict" :> 0) @@
    ("def" :> 2) @@
    ("exec" :> 1) @@ ("repeat" :> 2) @@ ("for" :> 4) @@ ("if" :> 2) @@
    ("ifelse" :> 3) @@
    ("true" :> 0) @@ ("false" :> 0) @@ ("eq" :> 2) @@ ("ne" :> 2) @@
    ("[" :> 0) @@ ("]" :> 1) @@ ("length" :> 1) @@ ("forall" :> 2) @@
    ("dict" :> 1) @@ ("begin" :> 1) @@ ("end" :> 0) @@
    ("cvi" :> 1)

\* The function the table holds under a name.
Body(s, name, random_value) ==
    CASE name = "add"    -> add(s)
      [] name = "sub"    -> sub(s)
      [] name = "mul"    -> mul(s)
      [] name = "div"    -> div(s)
      [] name = "neg"    -> neg(s)
      [] name = "sqrt"   -> sqrt(s)
      [] name = "rand"   -> rand(s, random_value)
      [] name = "exch"   -> exch(s)
      [] name = "dup"    -> dup(s)
      [] name = "pop"    -> pop(s)
      [] name = "clear"  -> clear(s)
      [] name = "pstack" -> pstack(s)
      [] name = "count"  -> count(s)
      [] name = "pdict"  -> pdict(s)
      [] name = "def"    -> def(s)
      [] name = "exec"   -> exec(s)
      [] name = "repeat" -> repeat(s)
      [] name = "for"    -> for_loop(s)
      [] name = "if"     -> if_cond(s)
      [] name = "ifelse" -> ifelse_cond(s)
      [] name = "true"   -> bool_true(s)
      [] name = "false"  -> bool_false(s)
      [] name = "eq"     -> eq(s)
      [] name = "ne"     -> ne(s)
      [] name = "["      -> mark(s)
      [] name = "]"      -> array_close(s)
      [] name = "length" -> array_length(s)
      [] name = "forall" -> array_forall(s)
      [] name = "dict"   -> dict_new(s)
      [] name = "begin"  -> dict_begin(s)
      [] name = "end"    -> dict_end(s)
      [] name = "cvi"    -> cvi(s)

\* The gate read one item short: a call one below its arity gets through.
Underflows_one_short(s, arity) == Len(s.operand_stack) + 1 < arity
\* The arity gate of operator!.
Underflows(s, arity) == Len(s.operand_stack) < arity

\* operator!: the gate, then the function, whose return is returned.
operator(s, arity, returned) ==
    IF Underflows(s, arity) THEN Raise(s, "StackUnderflow") ELSE returned

(***************************************************************************)
(* execute (main.rs): one item of the program at a time.  Each handler     *)
(* below takes the state with the item already consumed.                   *)
(***************************************************************************)
\* state.block_stack.push(inner.as_str().to_string()).
capture(s, tok) == [s EXCEPT !.block_stack = Append(@, tok)]

\* Rule::number.
number_item(s, tok) ==
    LET n == from_str_radix(tok, 10)
        f == parse_f32(tok)
    IN  IF s.block_stack # <<>> THEN capture(s, tok)
        ELSE IF n.ok THEN push(s, Number(n.val))
        ELSE IF f.ok THEN FloatResult(s, f.val)
        ELSE Raise(s, "InvalidNumber")

\* Rule::radixnumber.
radixnumber_item(s, tok) ==
    LET pos    == find(tok, "#", 1)
        radix  == parse_u32(SubSeq(tok, 1, pos - 1))
        number == from_str_radix(SubSeq(tok, pos + 1, Len(tok)), radix.val)
    IN  IF pos = 0 \/ ~radix.ok THEN Raise(s, "Panic")
        ELSE IF radix.val < RadixMin \/ radix.val > RadixMax THEN Raise(s, "Undefined")
        ELSE IF ~number.ok THEN Raise(s, "Undefined")
        ELSE push(s, Number(number.val))

\* Rule::key.
key_item(s, tok) ==
    IF s.block_stack # <<>> THEN capture(s, tok)
    ELSE push(s, Key(SubSeq(tok, 2, Len(tok))))

\* Rule::ident with the operator table consulted before the dictionaries.
ident_item_builtin_first(s, tok, random_value) ==
    IF s.block_stack # <<>> THEN capture(s, tok)
    ELSE IF tok \in DOMAIN operators
         THEN operator(s, operators[tok], Body(s, tok, random_value))
    ELSE IF contains_key(s, tok)
         THEN LET item == get(s, tok).item
              IN  IF item.type = "Block" THEN enter(s, item.code) ELSE push(s, item)
    ELSE Raise(s, "Undefined")
\* Rule::ident with the unresolved name left on the stack when it fails.
ident_item_leaves_name(s, tok, random_value) ==
    IF s.block_stack # <<>> THEN capture(s, tok)
    ELSE IF contains_key(s, tok)
         THEN LET item == get(s, tok).item
              IN  IF item.type = "Block" THEN enter(s, item.code) ELSE push(s, item)
    ELSE IF tok \in DOMAIN operators
         THEN operator(s, operators[tok], Body(s, tok, random_value))
    ELSE Raise(push(s, Key(tok)), "Undefined")
\* Rule::ident.
ident_item(s, tok, random_value) ==
    IF s.block_stack # <<>> THEN capture(s, tok)
    ELSE IF contains_key(s, tok)
         THEN LET item == get(s, tok).item
              IN  IF item.type = "Block" THEN enter(s, item.code) ELSE push(s, item)
    ELSE IF tok \in DOMAIN operators
         THEN operator(s, operators[tok], Body(s, tok, random_value))
    ELSE Raise(s, "Undefined")

\* Rule::ops, "{".
block_open(s) ==
    [s EXCEPT !.block_stack = Append(@, "{"), !.block_marks = @ + 1]

\* Rule::ops, "}", with the buffer read but not taken when the block closes.
block_close_keeps_buffer(s) ==
    IF s.block_stack = <<>> THEN Raise(s, "SyntaxError")
    ELSE IF s.block_marks - 1 > 0
         THEN [s EXCEPT !.block_marks = @ - 1, !.block_stack = Append(@, "}")]
    ELSE push([s EXCEPT !.block_marks = @ - 1],
              Block(join(Tail(s.block_stack))))
\* Rule::ops, "}", with the block text joined from the whole buffer, the
\* opening "{" included.
block_close_whole_buffer(s) ==
    IF s.block_stack = <<>> THEN Raise(s, "SyntaxError")
    ELSE IF s.block_marks - 1 > 0
         THEN [s EXCEPT !.block_marks = @ - 1, !.block_stack = Append(@, "}")]
    ELSE push([s EXCEPT !.block_marks = @ - 1, !.block_stack = <<>>],
              Block(join(s.block_stack)))
\* Rule::ops, "}", with the depth counted down before the buffer is looked at.
block_close_counts_first(s) ==
    IF s.block_stack = <<>>
    THEN Raise([s EXCEPT !.block_marks = @ - 1], "SyntaxError")
    ELSE IF s.block_marks - 1 > 0
         THEN [s EXCEPT !.block_marks = @ - 1, !.block_stack = Append(@, "}")]
    ELSE push([s EXCEPT !.block_marks = @ - 1, !.block_stack = <<>>],
              Block(join(Tail(s.block_stack))))
\* Rule::ops, "}", with the "}" of a nested block counted and not captured.
block_close_drops_nested(s) ==
    IF s.block_stack = <<>> THEN Raise(s, "SyntaxError")
    ELSE IF s.block_marks - 1 > 0
         THEN [s EXCEPT !.block_marks = @ - 1]
    ELSE push([s EXCEPT !.block_marks = @ - 1, !.block_stack = <<>>],
              Block(join(Tail(s.block_stack))))
\* Rule::ops, "}".
block_close(s) ==
    IF s.block_stack = <<>> THEN Raise(s, "SyntaxError")
    ELSE IF s.block_marks - 1 > 0
         THEN [s EXCEPT !.block_marks = @ - 1, !.block_stack = Append(@, "}")]
    ELSE push([s EXCEPT !.block_marks = @ - 1, !.block_stack = <<>>],
              Block(join(Tail(s.block_stack))))

\* Rule::ops, "[" and "]".
bracket(s, tok) ==
    IF s.block_stack # <<>> THEN capture(s, tok)
    ELSE operator(s, operators[tok], Body(s, tok, 0))

ops_item(s, tok) ==
    CASE tok = "{" -> block_open(s)
      [] tok = "}" -> block_close(s)
      [] OTHER     -> bracket(s, tok)

\* The frame on top with its first field changed.
SetTop(s, frame) == [s EXCEPT !.call_stack[Depth(s)] = frame]
Return(s) == [s EXCEPT !.call_stack = SubSeq(@, 1, Depth(s) - 1)]

\* Rule::EOI, then Ok(()): execute returns to its caller; the top-level one
\* returns to main.
end_of_input(s) ==
    IF Depth(s) = 1 THEN [Return(s) EXCEPT !.result = "Ok"] ELSE Return(s)

\* One item of the program of the execute in progress.
item_step(s, random_value) ==
    LET frame == Top(s)
        tok   == frame.items[frame.pc]
        rule  == as_rule(tok)
        next  == SetTop(s, [frame EXCEPT !.pc = @ + 1])
    IN  CASE rule = "number"      -> number_item(next, tok)
          [] rule = "radixnumber" -> radixnumber_item(next, tok)
          [] rule = "key"         -> key_item(next, tok)
          [] rule = "ident"       -> ident_item(next, tok, random_value)
          [] rule = "ops"         -> ops_item(next, tok)

\* `for i in 0..n` of repeat: the next iteration, or the return.
repeat_next(s) ==
    LET frame == Top(s)
    IN  IF frame.i < frame.n
        THEN enter(push(SetTop(s, [frame EXCEPT !.i = @ + 1]), Number(frame.i)),
                   frame.proc)
        ELSE Return(s)

\* for_next over init..limit, the limit left out.
for_next_exclusive(s) ==
    LET frame == Top(s)
        after == [frame EXCEPT !.next = IF AddOverflows(@, frame.step) THEN @
                                        ELSE @ + frame.step]
    IN  IF frame.done \/ frame.next >= frame.limit THEN Return(s)
        ELSE enter(push(SetTop(s, after), Number(frame.next)), frame.proc)

\* `for i in (init..=limit).step_by(inc as usize)` of for_loop.
for_next(s) ==
    LET frame == Top(s)
        last  == \/ frame.huge
                 \/ AddOverflows(frame.next, frame.step)
                 \/ frame.next + frame.step > frame.limit
        after == IF last THEN [frame EXCEPT !.done = TRUE]
                 ELSE [frame EXCEPT !.next = @ + frame.step]
    IN  IF frame.done THEN Return(s)
        ELSE enter(push(SetTop(s, after), Number(frame.next)), frame.proc)

\* `for elem in array.into_iter()` of array_forall.
forall_next(s) ==
    LET frame == Top(s)
    IN  IF frame.array = <<>> THEN Return(s)
        ELSE enter(push(SetTop(s, [frame EXCEPT !.array = Tail(@)]),
                        Head(frame.array)),
                   frame.proc)

\* An Err reaches the invocation on top of the call stack: `?` returns it to
\* the caller, and the expect of array_forall panics on it.
propagate(s) ==
    IF Top(s).kind = "forall"
    THEN [s EXCEPT !.call_stack = <<>>, !.result = "Panic"]
    ELSE Return(s)

\* The next step of the invocation on top of the call stack.
Step(s, random_value) ==
    LET frame == Top(s)
    IN  CASE s.result # "Running"  -> propagate(s)
          [] frame.kind = "repeat" -> repeat_next(s)
          [] frame.kind = "for"    -> for_next(s)
          [] frame.kind = "forall" -> forall_next(s)
          [] OTHER -> IF frame.pc > Len(frame.items) THEN end_of_input(s)
                      ELSE item_step(s, random_value)

\* main's call of execute on one program unit.
execute(s, code) ==
    [s EXCEPT !.call_stack = <<ExecuteFrame(parse(code))>>, !.result = "Running"]

\* The steps the model follows of one run: beyond them it is "Unmodelled".
MaxRun == 40

\* The state a run ends in: the steps of s until its call stack is empty.
RECURSIVE Run(_, _)
Run(s, fuel) ==
    IF s.call_stack = <<>> THEN s
    ELSE IF fuel = 0 THEN Raise(s, "Unmodelled")
    ELSE Run(Step(s, 0), fuel - 1)

\* The state after main has run code as one program unit in state s.
RunUnit(s, code) == Run(execute(s, code), MaxRun)

(***************************************************************************)
(* The session: main's State and read-eval loop.                           *)
(*   operand_stack .. block_marks   the fields of State;                   *)
(*   call_stack, result, overflow_checks   as in the record above;         *)
(*   history   the lines read so far (the editor's history);               *)
(*   input     the lines the user of this session types, in any order and  *)
(*             any number of times.                                        *)
(***************************************************************************)
VARIABLES operand_stack, dictionary, dict_stack, block_stack, block_marks,
          call_stack, result, overflow_checks, history, input

vars == <<operand_stack, dictionary, dict_stack, block_stack, block_marks,
          call_stack, result, overflow_checks, history, input>>

\* The values rand is seen to push.
RandValues == {7, -3}

\* The sessions explored: the lines typed, and the build.
Sessions ==
    {[lines |-> {"1", "2147483647", "add", "sub", "mul", "neg", "/k", "65536 65536 mul"},
      checks |-> TRUE],
     [lines |-> {"1", "2147483647", "add", "sub", "mul", "neg", "/k"}, checks |-> FALSE],
     [lines |-> {"4 2", "1.5", "div", "sqrt", "mul", "cvi", "eq"}, checks |-> FALSE],
     [lines |-> {"1", "/a", "exch", "dup", "pop", "clear count", "pstack pdict", "rand"},
      checks |-> FALSE],
     [lines |-> {"{", "}", "1 16#FF", "/x add [ ]", "exec", "40#1"}, checks |-> FALSE],
     [lines |-> {"/x 1 def", "/x 2 def", "1 dict begin", "end", "x",
                 "1 dict begin /x 2 def end"},
      checks |-> FALSE],
     [lines |-> {"2", "{ 1 add }", "repeat", "true", "false", "if", "ifelse"},
      checks |-> FALSE],
     [lines |-> {"0 1 2", "{ dup }", "for", "[ 1 /a ]", "forall", "{ foo }"},
      checks |-> FALSE],
     [lines |-> {"[", "]", "1", "length", "/a", "ne"}, checks |-> FALSE],
     [lines |-> {"/x 1 def 1 dict begin", "/x 2 def 1 dict begin", "x", "/y 3 def",
                 "y", "end"},
      checks |-> FALSE],
     [lines |-> {"/add 5 def", "add", "/f { 1 } def", "f", "/add { 7 } def", "1"},
      checks |-> FALSE],
     [lines |-> {"16#FF 4#3", "2#102", "37#1", "4294967296#1", "1#0", "36#Zz",
                 "[ 1.5 ] dup pop"},
      checks |-> FALSE],
     [lines |-> {"0 0 div dup eq", "0 0 div dup ne", "1 1.0", "eq", "ne"},
      checks |-> FALSE],
     [lines |-> {"-1 { 1 } repeat", "0 { 1 } repeat", "3 1 2 { } for",
                 "1 2 4 { pop } for", "2147483646 2 2147483647 { pop } for",
                 "true { 1 } { 2 } ifelse", "false { 1 } { 2 } ifelse",
                 "false { 1 } if", "-1 dict", "0 dict pop",
                 "1 0 div cvi pop", "0 0 div cvi pop", "-1.5 cvi pop", "/a cvi",
                 "1 2 def", "/a dict", "{ { 1 } } exec exec pop"},
      checks |-> FALSE]}

\* The state as the record the operators take, and the step to such a record.
Cur ==
    [operand_stack |-> operand_stack, dictionary |-> dictionary,
     dict_stack |-> dict_stack, block_stack |-> block_stack,
     block_marks |-> block_marks, call_stack |-> call_stack,
     result |-> result, overflow_checks |-> overflow_checks]

Becomes(s) ==
    /\ s.result # "Unmodelled"
    /\ operand_stack' = s.operand_stack
    /\ dictionary' = s.dictionary
    /\ dict_stack' = s.dict_stack
    /\ block_stack' = s.block_stack
    /\ block_marks' = s.block_marks
    /\ call_stack' = s.call_stack
    /\ result' = s.result
    /\ UNCHANGED <<overflow_checks, history, input>>

Init ==
    \E session \in Sessions :
        /\ input = session.lines
        /\ overflow_checks = session.checks
        /\ operand_stack = <<>>
        /\ dictionary = EmptyMap
        /\ dict_stack = <<>>
        /\ block_stack = <<>>
        /\ block_marks = 0
        /\ call_stack = <<>>
        /\ result = "None"
        /\ history = 0

\* The item the execute in progress is at, "" if there is none.
Tok ==
    IF call_stack = <<>> \/ result # "Running" THEN ""
    ELSE IF Top(Cur).kind # "execute" THEN ""
    ELSE IF Top(Cur).pc > Len(Top(Cur).items) THEN ""
    ELSE Top(Cur).items[Top(Cur).pc]

AtItem(rule) == Tok # "" /\ as_rule(Tok) = rule

\* The state with the item consumed: the handlers take it.
Taken == SetTop(Cur, [Top(Cur) EXCEPT !.pc = @ + 1])

\* The item is about to call the builtin of this name through the table.
Calls(name) ==
    /\ Tok = name
    /\ block_stack = <<>>
    /\ name \in DOMAIN operators
    /\ ~contains_key(Cur, name)

\* main: a line is read and executed.
ReadLine ==
    /\ call_stack = <<>>
    /\ result # "Panic"
    /\ history < MaxUnits
    /\ \E line \in input :
          /\ operand_stack' = operand_stack
          /\ dictionary' = dictionary
          /\ dict_stack' = dict_stack
          /\ block_stack' = block_stack
          /\ block_marks' = block_marks
          /\ call_stack' = execute(Cur, line).call_stack
          /\ result' = execute(Cur, line).result
          /\ history' = history + 1
          /\ UNCHANGED <<overflow_checks, input>>

NumberItem == AtItem("number") /\ Becomes(number_item(Taken, Tok))
RadixNumberItem == AtItem("radixnumber") /\ Becomes(radixnumber_item(Taken, Tok))
KeyItem == AtItem("key") /\ Becomes(key_item(Taken, Tok))
\* An identifier that is captured, resolves in the dictionaries, or is undefined.
IdentItem ==
    /\ AtItem("ident")
    /\ block_stack # <<>> \/ contains_key(Cur, Tok) \/ Tok \notin DOMAIN operators
    /\ Becomes(ident_item(Taken, Tok, 0))
BlockOpen == Tok = "{" /\ Becomes(block_open(Taken))
BlockClose == Tok = "}" /\ Becomes(block_close(Taken))
\* "[" or "]" while a block is captured.
BracketCaptured == Tok \in {"[", "]"} /\ block_stack # <<>> /\ Becomes(capture(Taken, Tok))
EndOfInput ==
    /\ call_stack # <<>>
    /\ result = "Running"
    /\ Top(Cur).kind = "execute"
    /\ Top(Cur).pc > Len(Top(Cur).items)
    /\ Becomes(end_of_input(Cur))
RepeatNext ==
    /\ call_stack # <<>> /\ result = "Running" /\ Top(Cur).kind = "repeat"
    /\ Becomes(repeat_next(Cur))
ForNext ==
    /\ call_stack # <<>> /\ result = "Running" /\ Top(Cur).kind = "for"
    /\ Becomes(for_next(Cur))
ForallNext ==
    /\ call_stack # <<>> /\ result = "Running" /\ Top(Cur).kind = "forall"
    /\ Becomes(forall_next(Cur))

\* An Err on its way up to main.
Propagate == call_stack # <<>> /\ result # "Running" /\ Becomes(propagate(Cur))

\* The builtins, each called through the table.
Add == Calls("add") /\ Becomes(operator(Taken, operators["add"], add(Taken)))
Sub == Calls("sub") /\ Becomes(operator(Taken, operators["sub"], sub(Taken)))
Mul == Calls("mul") /\ Becomes(operator(Taken, operators["mul"], mul(Taken)))
Div == Calls("div") /\ Becomes(operator(Taken, operators["div"], div(Taken)))
Neg == Calls("neg") /\ Becomes(operator(Taken, operators["neg"], neg(Taken)))
Sqrt == Calls("sqrt") /\ Becomes(operator(Taken, operators["sqrt"], sqrt(Taken)))
Rand ==
    /\ Calls("rand")
    /\ \E random_value \in RandValues :
          Becomes(operator(Taken, operators["rand"], rand(Taken, random_value)))
Exch == Calls("exch") /\ Becomes(operator(Taken, operators["exch"], exch(Taken)))
Dup == Calls("dup") /\ Becomes(operator(Taken, operators["dup"], dup(Taken)))
Pop == Calls("pop") /\ Becomes(operator(Taken, operators["pop"], pop(Taken)))
Clear == Calls("clear") /\ Becomes(operator(Taken, operators["clear"], clear(Taken)))
Pstack == Calls("pstack") /\ Becomes(operator(Taken, operators["pstack"], pstack(Taken)))
Count == Calls("count") /\ Becomes(operator(Taken, operators["count"], count(Taken)))
Pdict == Calls("pdict") /\ Becomes(operator(Taken, operators["pdict"], pdict(Taken)))
Def == Calls("def") /\ Becomes(operator(Taken, operators["def"], def(Taken)))
Exec == Calls("exec") /\ Becomes(operator(Taken, operators["exec"], exec(Taken)))
Repeat == Calls("repeat") /\ Becomes(operator(Taken, operators["repeat"], repeat(Taken)))
ForLoop == Calls("for") /\ Becomes(operator(Taken, operators["for"], for_loop(Taken)))
IfCond == Calls("if") /\ Becomes(operator(Taken, operators["if"], if_cond(Taken)))
IfelseCond == Calls("ifelse") /\ Becomes(operator(Taken, operators["ifelse"], ifelse_cond(Taken)))
BoolTrue == Calls("true") /\ Becomes(operator(Taken, operators["true"], bool_true(Taken)))
BoolFalse == Calls("false") /\ Becomes(operator(Taken, operators["false"], bool_false(Taken)))
Eq == Calls("eq") /\ Becomes(operator(Taken, operators["eq"], eq(Taken)))
Ne == Calls("ne") /\ Becomes(operator(Taken, operators["ne"], ne(Taken)))
MarkOp == Calls("[") /\ Becomes(operator(Taken, operators["["], mark(Taken)))
ArrayClose == Calls("]") /\ Becomes(operator(Taken, operators["]"], array_close(Taken)))
ArrayLength == Calls("length") /\ Becomes(operator(Taken, operators["length"], array_length(Taken)))
ArrayForall == Calls("forall") /\ Becomes(operator(Taken, operators["forall"], array_forall(Taken)))
DictNew == Calls("dict") /\ Becomes(operator(Taken, operators["dict"], dict_new(Taken)))
DictBegin == Calls("begin") /\ Becomes(operator(Taken, operators["begin"], dict_begin(Taken)))
DictEnd == Calls("end") /\ Becomes(operator(Taken, operators["end"], dict_end(Taken)))
Cvi == Calls("cvi") /\ Becomes(operator(Taken, operators["cvi"], cvi(Taken)))

Next ==
    \/ ReadLine
    \/ NumberItem \/ RadixNumberItem \/ KeyItem \/ IdentItem
    \/ BlockOpen \/ BlockClose \/ BracketCaptured
    \/ EndOfInput \/ RepeatNext \/ ForNext \/ ForallNext \/ Propagate
    \/ Add \/ Sub \/ Mul \/ Div \/ Neg \/ Sqrt \/ Rand
    \/ Exch \/ Dup \/ Pop \/ Clear \/ Pstack \/ Count \/ Pdict
    \/ Def
    \/ Exec \/ Repeat \/ ForLoop \/ IfCond \/ IfelseCond
    \/ BoolTrue \/ BoolFalse \/ Eq \/ Ne
    \/ MarkOp \/ ArrayClose \/ ArrayLength \/ ArrayForall
    \/ DictNew \/ DictBegin \/ DictEnd
    \/ Cvi

Spec == Init /\ [][Next]_vars

(***************************************************************************)
(* Properties of the interpreter.                                          *)
(***************************************************************************)

\* C1: a builtin of the operator table that is called with fewer items on
\* the operand stack than its declared arity fails with StackUnderflow, and
\* the operand stack, the current dictionary, the enclosing dictionaries and
\* the capture state are what they were before the call.
C1_UnderflowLeavesStateUnchanged ==
    [][\A name \in DOMAIN operators :
          (Calls(name) /\ Len(operand_stack) < operators[name])
          => /\ result' = "StackUnderflow"
             /\ operand_stack' = operand_stack
             /\ dictionary' = dictionary
             /\ dict_stack' = dict_stack
             /\ block_stack' = block_stack
             /\ block_marks' = block_marks]_vars

\* `add` was called on a stack of one item and has failed.
C1_Witness ==
    /\ result = "StackUnderflow"
    /\ call_stack # <<>>
    /\ Top(Cur).kind = "execute"
    /\ Top(Cur).items = <<"add">>
    /\ operand_stack = <<Number(1)>>

\* C2: while a block is being captured (depth >= 1), an item other than `{`
\* and `}` is appended to the capture buffer as its source text and is not
\* interpreted: the operand stack, the current dictionary and the enclosing
\* dictionaries keep their values and the evaluation does not fail.
C2_CapturedItemIsAppendedOnly ==
    [][(block_stack # <<>> /\ Tok \notin {"", "{", "}"})
       => /\ block_stack' = Append(block_stack, Tok)
          /\ operand_stack' = operand_stack
          /\ dictionary' = dictionary
          /\ dict_stack' = dict_stack
          /\ result' = "Running"]_vars

\* Of `1 16#FF` met inside an open `{`, the 1 is in the buffer and the radix
\* literal has been pushed as 255 instead.
C2_RadixInterpretedWhileCapturing ==
    /\ block_stack = <<"{", "1">>
    /\ block_marks = 1
    /\ operand_stack = <<Number(255)>>
    /\ result = "Running"

\* C3: in every reachable state, between the items of a unit, between the
\* units of a session and after a failed evaluation, the capture depth is 0
\* exactly when the capture buffer is empty, and the depth is never negative.
C3_DepthZeroIffBufferEmpty ==
    /\ (block_marks = 0) <=> (block_stack = <<>>)
    /\ block_marks >= 0

\* An evaluation has failed at depth 2, two units after the capture began.
C3_Witness ==
    /\ block_marks = 2
    /\ block_stack = <<"{", "{">>
    /\ result = "Undefined"
    /\ call_stack = <<>>
    /\ history = 3

\* The length of a text that holds these items with one space between
\* neighbours and nothing else.
RECURSIVE SingleSpacedLen(_)
SingleSpacedLen(items) ==
    IF items = <<>> THEN 0
    ELSE IF Len(items) = 1 THEN Len(items[1])
    ELSE Len(items[1]) + 1 + SingleSpacedLen(Tail(items))

\* C4: a `}` that brings the depth from 1 to 0 pushes exactly one Block,
\* whose text holds the buffered items without the opening `{`, in their
\* order and one space apart, empties the buffer and leaves the capture; a
\* `{` or a `}` at greater depth is only appended to the buffer and pushes
\* nothing, and neither of them executes anything.
C4_CloseBraceBuildsOneBlock ==
    [][/\ (Tok = "}" /\ block_marks = 1)
          => /\ Len(operand_stack') = Len(operand_stack) + 1
             /\ LET top == operand_stack'[Len(operand_stack')]
                IN  /\ operand_stack' = Append(operand_stack, top)
                    /\ top.type = "Block"
                    /\ parse(top.code) = Tail(block_stack)
                    /\ Len(top.code) = SingleSpacedLen(Tail(block_stack))
             /\ block_stack' = <<>>
             /\ block_marks' = 0
             /\ result' = "Running"
             /\ Len(call_stack') = Len(call_stack)
             /\ dictionary' = dictionary /\ dict_stack' = dict_stack
       /\ ((Tok = "{" /\ block_marks >= 1) \/ (Tok = "}" /\ block_marks >= 2))
          => /\ block_stack' = Append(block_stack, Tok)
             /\ block_marks' = (IF Tok = "{" THEN block_marks + 1 ELSE block_marks - 1)
             /\ operand_stack' = operand_stack
             /\ result' = "Running"
             /\ Len(call_stack') = Len(call_stack)
             /\ dictionary' = dictionary /\ dict_stack' = dict_stack]_vars

\* A brace group nested in another has been closed into one block, which
\* lies on the stack unexecuted.
C4_Witness ==
    /\ operand_stack = <<Block("{ }")>>
    /\ block_stack = <<>>
    /\ block_marks = 0
    /\ result = "Running"

\* Brace-balanced bodies, one of them with a nested `{ ... } exec`.
C5_Bodies ==
    {"", "1 1 add", "1 16#FF", "/x 1 def x", "{ 1 } exec dup", "add", "foo",
     "[ 1 2 ]", "{ /x }"}

\* C5: from every idle state, `{ body } exec` run as one unit ends in the
\* state in which `body` run as one unit ends: the same operand stack,
\* dictionaries, capture state and outcome, for every brace-balanced body,
\* bodies with a nested `{ ... } exec` included.
C5_ExecOfBlockIsBody ==
    (call_stack = <<>> /\ block_stack = <<>> /\ result # "Panic")
    => \A body \in C5_Bodies :
          LET braced == RunUnit(Cur, "{ " \o body \o " } exec")
              direct == RunUnit(Cur, body)
          IN  (braced.result # "Unmodelled" /\ direct.result # "Unmodelled")
              => /\ braced.operand_stack = direct.operand_stack
                 /\ braced.dictionary = direct.dictionary
                 /\ braced.dict_stack = direct.dict_stack
                 /\ braced.block_stack = direct.block_stack
                 /\ braced.block_marks = direct.block_marks
                 /\ braced.result = direct.result

\* From the empty state `{ 1 16#FF } exec` ends with 255 below 1, and
\* `1 16#FF` with 1 below 255.
C5_RadixBodyDiverges ==
    /\ call_stack = <<>> /\ operand_stack = <<>> /\ block_stack = <<>>
    /\ RunUnit(Cur, "{ 1 16#FF } exec").operand_stack = <<Number(255), Number(1)>>
    /\ RunUnit(Cur, "1 16#FF").operand_stack = <<Number(1), Number(255)>>

\* C6: on every operand stack that holds no Mark, the empty stack included,
\* `]` fails with UnmatchedMark and leaves the operand stack unchanged.
C6_NoMarkIsUnmatchedMark ==
    [][(/\ Calls("]")
        /\ \A i \in 1..Len(operand_stack) : operand_stack[i].type # "Mark")
       => /\ result' = "UnmatchedMark"
          /\ operand_stack' = operand_stack]_vars

\* C6, amended: on every operand stack that holds no Mark, `]` fails and
\* leaves the operand stack unchanged; the failure is UnmatchedMark when the
\* stack holds an item and StackUnderflow when it is empty, `]` being gated
\* with arity 1.
C6_NoMarkFailsByDepth ==
    [][(/\ Calls("]")
        /\ \A i \in 1..Len(operand_stack) : operand_stack[i].type # "Mark")
       => /\ operand_stack # <<>> => result' = "UnmatchedMark"
          /\ operand_stack = <<>> => result' = "StackUnderflow"
          /\ operand_stack' = operand_stack]_vars

\* `]` has failed on a stack that holds one number and no Mark.
C6_Witness ==
    /\ result = "UnmatchedMark"
    /\ call_stack # <<>>
    /\ Top(Cur).kind = "execute"
    /\ Top(Cur).items = <<"]">>
    /\ operand_stack = <<Number(1)>>

\* C7: when the operand stack holds a Mark, `]` removes the Mark nearest the
\* top and every value above it and pushes one Array of exactly those
\* values in their bottom-to-top order; the values below that Mark, earlier
\* Marks among them, are unchanged, and `length` applied to the result
\* pushes the number of values that were above the Mark.
C7_ArrayFromNearestMark ==
    [][(/\ Calls("]")
        /\ \E i \in 1..Len(operand_stack) : operand_stack[i].type = "Mark")
       => LET marks == {i \in 1..Len(operand_stack) : operand_stack[i].type = "Mark"}
              m     == CHOOSE i \in marks : \A j \in marks : j <= i
              n     == Len(operand_stack) - m
          IN  /\ result' = "Running"
              /\ Len(operand_stack') = m
              /\ \A i \in 1..(m - 1) : operand_stack'[i] = operand_stack[i]
              /\ operand_stack'[m].type = "Array"
              /\ Len(operand_stack'[m].items) = n
              /\ \A k \in 1..n : operand_stack'[m].items[k] = operand_stack[m + k]
              /\ array_length(Cur').result = "Running"
              /\ array_length(Cur').operand_stack
                    = Append(SubSeq(operand_stack', 1, m - 1), Number(n))]_vars

\* An array of one value has been closed above an earlier Mark, which is
\* still on the stack.
C7_Witness ==
    /\ operand_stack = <<Mark, Array(<<Number(1)>>)>>
    /\ result = "Running"
    /\ call_stack # <<>>
    /\ Top(Cur).kind = "execute"
    /\ Top(Cur).items = <<"]">>

\* Sequences of `def`, one of them around a nested `begin` ... `end`.
C8_DefPrograms ==
    {"", "/x 2 def", "/x 2 def /y 3 def /x 4 def",
     "/y 1 def 1 dict begin /y 2 def /x 3 def end /x 5 def"}

\* C8: the `def`s performed between a `begin` and its matching `end` add,
\* remove and change no binding of an enclosing dictionary, and after the
\* matching `end` the current dictionary and the enclosing dictionaries are
\* what they were just before the `begin`.
C8_BeginDefEndRestores ==
    (/\ call_stack = <<>> /\ block_stack = <<>> /\ result # "Panic"
     /\ \A name \in {"dict", "begin", "def", "end"} : ~contains_key(Cur, name))
    => \A defs \in C8_DefPrograms :
          LET inside == RunUnit(Cur, "1 dict begin " \o defs)
              after  == RunUnit(Cur, "1 dict begin " \o defs \o " end")
          IN  /\ inside.result = "Ok"
              /\ inside.dict_stack = Append(dict_stack, dictionary)
              /\ after.result = "Ok"
              /\ after.dictionary = dictionary
              /\ after.dict_stack = dict_stack

\* `1 dict begin /x 2 def end` has run where x was bound to 1, and x is
\* bound to 1.
C8_Witness ==
    /\ call_stack # <<>>
    /\ Top(Cur).kind = "execute"
    /\ Top(Cur).items = <<"1", "dict", "begin", "/x", "2", "def", "end">>
    /\ Top(Cur).pc = 8
    /\ result = "Running"
    /\ dictionary = insert(EmptyMap, "x", Number(1))
    /\ dict_stack = <<>>

\* C9: the lookup of a name gives its binding in the current dictionary if
\* that has the name, otherwise its binding in the most recently entered
\* enclosing dictionary that has it, and reports the name as not found only
\* when no dictionary of the chain has it; an identifier item pushes the
\* binding so found, and is undefined when there is none and no builtin of
\* that name.
C9_LookupNewestFirst ==
    [][(AtItem("ident") /\ block_stack = <<>>)
       => LET chain   == Append(dict_stack, dictionary)
              holders == {i \in 1..Len(chain) : Tok \in DOMAIN chain[i]}
              newest  == CHOOSE i \in holders : \A j \in holders : j <= i
          IN  IF holders # {}
              THEN /\ contains_key(Cur, Tok)
                   /\ get(Cur, Tok).found
                   /\ get(Cur, Tok).item = chain[newest][Tok]
                   /\ chain[newest][Tok].type # "Block"
                      => /\ operand_stack' = Append(operand_stack, chain[newest][Tok])
                         /\ result' = "Running"
              ELSE /\ ~contains_key(Cur, Tok)
                   /\ ~get(Cur, Tok).found
                   /\ Tok \notin DOMAIN operators => result' = "Undefined"]_vars

\* x, bound to 1 in the older and to 2 in the newer enclosing dictionary and
\* unbound in the current one, has been looked up and 2 pushed.
C9_Witness ==
    /\ dict_stack = <<insert(EmptyMap, "x", Number(1)), insert(EmptyMap, "x", Number(2))>>
    /\ dictionary = EmptyMap
    /\ operand_stack = <<Number(2)>>
    /\ call_stack # <<>>
    /\ Top(Cur).kind = "execute"
    /\ Top(Cur).items = <<"x">>
    /\ result = "Running"

\* The item of the operand stack that lies n below the top.
FromTop(n) == operand_stack[Len(operand_stack) - n]

\* C10: a coercion that receives the wrong variant returns a TypeCheck
\* failure to its caller and does not abort the process: `if` and `ifelse`
\* with a condition that is no Bool, `length` and `forall` with an operand
\* that is no Array and `begin` with an operand that is no Dict fail with
\* TypeCheck, as `add` does with an operand that is no number, `def` with a
\* name that is no Key, `exec` with an operand that is no Block and `dict`
\* with one that is no Number.
C10_WrongVariantIsTypeCheck ==
    [][/\ (/\ Calls("if") /\ Len(operand_stack) >= 2
           /\ FromTop(0).type = "Block" /\ FromTop(1).type # "Bool")
          => result' = "TypeCheck"
       /\ (/\ Calls("ifelse") /\ Len(operand_stack) >= 3
           /\ FromTop(0).type = "Block" /\ FromTop(1).type = "Block"
           /\ FromTop(2).type # "Bool")
          => result' = "TypeCheck"
       /\ (Calls("length") /\ Len(operand_stack) >= 1 /\ FromTop(0).type # "Array")
          => result' = "TypeCheck"
       /\ (/\ Calls("forall") /\ Len(operand_stack) >= 2
           /\ FromTop(0).type = "Block" /\ FromTop(1).type # "Array")
          => result' = "TypeCheck"
       /\ (Calls("begin") /\ Len(operand_stack) >= 1 /\ FromTop(0).type # "Dict")
          => result' = "TypeCheck"
       /\ (/\ Calls("add") /\ Len(operand_stack) >= 2
           /\ FromTop(0).type \notin {"Number", "Float"})
          => result' = "TypeCheck"
       /\ (Calls("def") /\ Len(operand_stack) >= 2 /\ FromTop(1).type # "Key")
          => result' = "TypeCheck"
       /\ (Calls("exec") /\ Len(operand_stack) >= 1 /\ FromTop(0).type # "Block")
          => result' = "TypeCheck"
       /\ (Calls("dict") /\ Len(operand_stack) >= 1 /\ FromTop(0).type # "Number")
          => result' = "TypeCheck"]_vars

\* `length` has met the number 1 and the process has aborted.
C10_LengthOfNumberAborts ==
    /\ result = "Panic"
    /\ call_stack = <<>>
    /\ operand_stack = <<>>
    /\ input = {"[", "]", "1", "length", "/a", "ne"}
    /\ history = 2

\* C11: a failure raised while a block body runs, invoked by `exec`,
\* `repeat`, `for`, `if`, `ifelse`, `forall` or through a name bound to a
\* procedure, is returned as that same failure by every invocation in
\* progress up to the top-level one: each returns without running another
\* iteration or item, and what was changed before the failure stays changed.
C11_FailureReturnsToEveryInvoker ==
    [][(call_stack # <<>> /\ result # "Running")
       => /\ result' = result
          /\ call_stack' = SubSeq(call_stack, 1, Len(call_stack) - 1)
          /\ operand_stack' = operand_stack
          /\ dictionary' = dictionary
          /\ dict_stack' = dict_stack
          /\ block_stack' = block_stack
          /\ block_marks' = block_marks]_vars

\* `[ 1 /a ]`, `{ foo }` and `forall` were read: the undefined foo of the
\* first iteration has aborted the process, 1 still on the stack.
C11_ForallAbortsOnFailure ==
    /\ result = "Panic"
    /\ call_stack = <<>>
    /\ operand_stack = <<Number(1)>>
    /\ "forall" \in input
    /\ history = 3

\* a + b and a - b are values of i32.
SumIsI32(a, b) == (b >= 0 /\ a <= I32Max - b) \/ (b < 0 /\ a >= I32Min - b)
DifferenceIsI32(a, b) == (b >= 0 /\ a >= I32Min + b) \/ (b < 0 /\ a <= I32Max + b)

\* C12: for all 32-bit integers a and b, with Number(a) below Number(b) on
\* the stack, `add` replaces the two by Number(a + b) and `sub` by
\* Number(a - b), and nothing else of the interpreter state changes.
C12_AddSubOfAllIntegers ==
    [][\A name \in {"add", "sub"} :
          (/\ Calls(name) /\ Len(operand_stack) >= 2
           /\ FromTop(0).type = "Number" /\ FromTop(1).type = "Number")
          => LET a == FromTop(1).int
                 b == FromTop(0).int
                 n == Len(operand_stack)
             IN  /\ result' = "Running"
                 /\ IF name = "add" THEN SumIsI32(a, b) ELSE DifferenceIsI32(a, b)
                 /\ operand_stack'
                       = Append(SubSeq(operand_stack, 1, n - 2),
                                Number(IF name = "add" THEN a + b ELSE a - b))
                 /\ dictionary' = dictionary
                 /\ dict_stack' = dict_stack
                 /\ block_stack' = block_stack
                 /\ block_marks' = block_marks]_vars

\* In a build without overflow checks `add` has left the least i32 where
\* 2147483647 and 1 were.
C12_AddWrapped ==
    /\ ~overflow_checks
    /\ operand_stack = <<Number(I32Min)>>
    /\ result = "Running"
    /\ call_stack # <<>>
    /\ Top(Cur).kind = "execute"
    /\ Top(Cur).items = <<"add">>

\* C13: an identifier met outside a capture is resolved in the dictionaries
\* before the operator table, so that a binding under the name of a builtin
\* is taken and not the builtin; a bound Block is executed at once on the
\* same state, and a bound value of another variant is pushed as a copy;
\* the dictionaries are left as they are.
C13_BindingBeforeBuiltin ==
    [][(/\ AtItem("ident") /\ block_stack = <<>>
        /\ \/ Tok \in DOMAIN dictionary
           \/ \E i \in 1..Len(dict_stack) : Tok \in DOMAIN dict_stack[i])
       => LET chain   == Append(dict_stack, dictionary)
              holders == {i \in 1..Len(chain) : Tok \in DOMAIN chain[i]}
              newest  == CHOOSE i \in holders : \A j \in holders : j <= i
              item    == chain[newest][Tok]
          IN  /\ result' = "Running"
              /\ dictionary' = dictionary
              /\ dict_stack' = dict_stack
              /\ block_stack' = block_stack
              /\ IF item.type = "Block"
                 THEN /\ operand_stack' = operand_stack
                      /\ Len(call_stack') = Len(call_stack) + 1
                      /\ call_stack'[Len(call_stack')].kind = "execute"
                      /\ call_stack'[Len(call_stack')].items = parse(item.code)
                      /\ call_stack'[Len(call_stack')].pc = 1
                 ELSE /\ operand_stack' = Append(operand_stack, item)
                      /\ Len(call_stack') = Len(call_stack)]_vars

\* `add`, bound to 5 by the user, has pushed 5 and has not added.
C13_Witness ==
    /\ dictionary = insert(EmptyMap, "add", Number(5))
    /\ operand_stack = <<Number(5)>>
    /\ result = "Running"
    /\ call_stack # <<>>
    /\ Top(Cur).kind = "execute"
    /\ Top(Cur).items = <<"add">>
    /\ Top(Cur).pc = 2

\* C14: an identifier met outside a capture that no dictionary of the chain
\* binds and that names no builtin fails with Undefined, and the operand
\* stack, the dictionaries and the capture state are what they were.
C14_UnboundNameIsUndefined ==
    [][(/\ AtItem("ident") /\ block_stack = <<>>
        /\ Tok \notin DOMAIN dictionary
        /\ \A i \in 1..Len(dict_stack) : Tok \notin DOMAIN dict_stack[i]
        /\ Tok \notin DOMAIN operators)
       => /\ result' = "Undefined"
          /\ operand_stack' = operand_stack
          /\ dictionary' = dictionary
          /\ dict_stack' = dict_stack
          /\ block_stack' = block_stack
          /\ block_marks' = block_marks]_vars

\* y, bound nowhere, has failed inside a `begin` whose enclosing dictionary
\* binds x.
C14_Witness ==
    /\ result = "Undefined"
    /\ call_stack # <<>>
    /\ Top(Cur).kind = "execute"
    /\ Top(Cur).items = <<"y">>
    /\ dict_stack = <<insert(EmptyMap, "x", Number(1))>>
    /\ dictionary = EmptyMap

\* C15: a `}` met outside a capture (depth 0, buffer empty) fails with
\* SyntaxError, and the depth, the buffer, the operand stack and the
\* dictionaries are what they were.
C15_CloseBraceOutsideCapture ==
    [][(Tok = "}" /\ block_marks = 0 /\ block_stack = <<>>)
       => /\ result' = "SyntaxError"
          /\ block_marks' = 0
          /\ block_stack' = <<>>
          /\ operand_stack' = operand_stack
          /\ dictionary' = dictionary
          /\ dict_stack' = dict_stack]_vars

\* `}` has failed with 1 and 255 on the stack and no capture open.
C15_Witness ==
    /\ result = "SyntaxError"
    /\ call_stack # <<>>
    /\ Top(Cur).kind = "execute"
    /\ Top(Cur).items = <<"}">>
    /\ operand_stack = <<Number(1), Number(255)>>
    /\ block_marks = 0
    /\ block_stack = <<>>

\* C16: `end` called when no dictionary is saved fails with StackUnderflow
\* and leaves the current dictionary and the operand stack unchanged; called
\* when one is saved it makes the most recently saved dictionary the current
\* one and shortens the stack of saved dictionaries by exactly that one.
C16_EndPopsNewestDictionary ==
    [][Calls("end")
       => IF dict_stack = <<>>
          THEN /\ result' = "StackUnderflow"
               /\ dictionary' = dictionary
               /\ dict_stack' = <<>>
               /\ operand_stack' = operand_stack
          ELSE /\ result' = "Running"
               /\ dictionary' = dict_stack[Len(dict_stack)]
               /\ dict_stack' = SubSeq(dict_stack, 1, Len(dict_stack) - 1)
               /\ operand_stack' = operand_stack]_vars

\* `end` has run inside two nested `begin`s: the dictionary of the inner one
\* is current again and the outer one is still saved.
C16_Witness ==
    /\ dictionary = insert(EmptyMap, "x", Number(2))
    /\ dict_stack = <<insert(EmptyMap, "x", Number(1))>>
    /\ result = "Running"
    /\ call_stack # <<>>
    /\ Top(Cur).kind = "execute"
    /\ Top(Cur).items = <<"end">>
    /\ Top(Cur).pc = 2

\* The radix and the digits of a radix literal, as texts.
RadixText(tok) == SubSeq(tok, 1, find(tok, "#", 1) - 1)
DigitsText(tok) == SubSeq(tok, find(tok, "#", 1) + 1, Len(tok))

\* C17: a radix literal R#digits with R in 2..36 and digits that are a
\* 32-bit number in base R pushes that Number (16#FF gives 255 and 4#3
\* gives 3); with R outside 2..36 or digits that cannot be parsed it fails
\* with Undefined and leaves the operand stack unchanged.
C17_RadixLiteral ==
    [][AtItem("radixnumber")
       => LET radix == from_str_radix(RadixText(Tok), 10)
              inside == radix.ok /\ radix.val >= 2 /\ radix.val <= 36
              value == from_str_radix(DigitsText(Tok), IF inside THEN radix.val ELSE 10)
          IN  /\ IF inside /\ value.ok
                 THEN /\ result' = "Running"
                      /\ operand_stack' = Append(operand_stack, Number(value.val))
                 ELSE /\ result' = "Undefined"
                      /\ operand_stack' = operand_stack
              /\ Tok = "16#FF" => operand_stack' = Append(operand_stack, Number(255))
              /\ Tok = "4#3" => operand_stack' = Append(operand_stack, Number(3))
              /\ Tok = "36#Zz" => operand_stack' = Append(operand_stack, Number(1295))]_vars

\* After `16#FF 4#3`, the literal 4294967296#1 has aborted the process.
C17_RadixBeyondU32Aborts ==
    /\ result = "Panic"
    /\ call_stack = <<>>
    /\ operand_stack = <<Number(255), Number(3)>>
    /\ "4294967296#1" \in input
    /\ history = 2

\* C18: `eq` and `ne` pop two values and push one Bool; `eq` pushes true
\* exactly when the two are of the same variant with equal contents, so
\* that Number(1) and Float(1.0) are unequal, and `ne` pushes the negation
\* of what `eq` pushes for the same two values.
C18_EqIsStructuralNeItsNegation ==
    [][\A name \in {"eq", "ne"} :
          (Calls(name) /\ Len(operand_stack) >= 2)
          => LET a    == FromTop(0)
                 b    == FromTop(1)
                 same == a.type = b.type /\ a = b
                 rest == SubSeq(operand_stack, 1, Len(operand_stack) - 2)
             IN  /\ result' = "Running"
                 /\ operand_stack'
                       = Append(rest, Bool(IF name = "eq" THEN same ELSE ~same))
                 /\ (a = Float(1, 1) /\ b = Number(1) /\ name = "eq")
                    => operand_stack' = Append(rest, Bool(FALSE))]_vars

\* `0 0 div dup eq` has compared the quotient with its copy and pushed
\* false.
C18_NaNUnequalToItsCopy ==
    /\ operand_stack = <<Bool(FALSE)>>
    /\ result = "Running"
    /\ call_stack # <<>>
    /\ Top(Cur).kind = "execute"
    /\ Top(Cur).items = <<"0", "0", "div", "dup", "eq">>
    /\ Top(Cur).pc = 6


\* C19: on every non-empty operand stack, whatever its top value, `dup`
\* followed by `pop` succeeds and leaves the operand stack, in depth and in
\* every value, and the rest of the interpreter state as they were.
C19_DupThenPopChangesNothing ==
    (/\ call_stack = <<>> /\ block_stack = <<>> /\ result # "Panic"
     /\ operand_stack # <<>>
     /\ \A name \in {"dup", "pop"} : ~contains_key(Cur, name))
    => LET between == RunUnit(Cur, "dup")
           after   == RunUnit(Cur, "dup pop")
       IN  /\ between.result = "Ok"
           /\ between.operand_stack = Append(operand_stack, FromTop(0))
           /\ after.result = "Ok"
           /\ after.operand_stack = operand_stack
           /\ after.dictionary = dictionary
           /\ after.dict_stack = dict_stack
           /\ after.block_stack = block_stack
           /\ after.block_marks = block_marks
           /\ after.overflow_checks = overflow_checks

\* `[ 1.5 ] dup pop` has run on the empty stack, and the array alone is on
\* the stack.
C19_Witness ==
    /\ call_stack # <<>>
    /\ Top(Cur).kind = "execute"
    /\ Top(Cur).items = <<"[", "1.5", "]", "dup", "pop">>
    /\ Top(Cur).pc = 6
    /\ result = "Running"
    /\ operand_stack = <<Array(<<Float(3, 2)>>)>>
    /\ dictionary = EmptyMap
    /\ dict_stack = <<>>


\* A Number or a Float.
Numeric(item) == item.type \in {"Number", "Float"}

\* C20: `div` of two numeric operands pushes a Float in their place, also
\* when both are Numbers and the division is even; `mul` pushes a Number
\* when both operands are Numbers, a Float when both are numeric and one at
\* least is a Float, and fails with TypeCheck when an operand is not
\* numeric.
C20_DivIsFloatMulKeepsNumbers ==
    [][/\ (/\ Calls("div") /\ Len(operand_stack) >= 2
           /\ Numeric(FromTop(0)) /\ Numeric(FromTop(1)))
          => /\ result' = "Running"
             /\ Len(operand_stack') = Len(operand_stack) - 1
             /\ operand_stack'[Len(operand_stack')].type = "Float"
             /\ (FromTop(1) = Number(4) /\ FromTop(0) = Number(2))
                => operand_stack'[Len(operand_stack')] = Float(2, 1)
       /\ (Calls("mul") /\ Len(operand_stack) >= 2)
          => IF Numeric(FromTop(0)) /\ Numeric(FromTop(1))
             THEN /\ result' = "Running"
                  /\ Len(operand_stack') = Len(operand_stack) - 1
                  /\ operand_stack'[Len(operand_stack')].type
                        = IF FromTop(0).type = "Number" /\ FromTop(1).type = "Number"
                          THEN "Number" ELSE "Float"
             ELSE result' = "TypeCheck"]_vars

\* In a build with overflow checks `65536 65536 mul`, typed after `1`, has
\* aborted the interpreter: the two Numbers are gone and no Number is in
\* their place.
C20_MulOfNumbersAborts ==
    /\ overflow_checks
    /\ result = "Panic"
    /\ history = 2
    /\ operand_stack = <<Number(1)>>
    /\ dictionary = EmptyMap


\* C21: `repeat` with a Block on top of Number(n) removes both and starts a
\* loop at i = 0; each turn of the loop with i < n pushes Number(i), goes on
\* to i + 1 and evaluates the block, and the turn with i >= n returns with
\* nothing pushed; no step changes a loop that is waiting for its block.  So
\* the block is evaluated for i = 0, 1, ..., n - 1 in that order, n times
\* when n > 0 and never when n <= 0.
C21_RepeatRunsBlockNTimes ==
    [][/\ (/\ Calls("repeat") /\ Len(operand_stack) >= 2
           /\ FromTop(0).type = "Block" /\ FromTop(1).type = "Number")
          => /\ result' = "Running"
             /\ operand_stack' = SubSeq(operand_stack, 1, Len(operand_stack) - 2)
             /\ call_stack'
                   = Append(Taken.call_stack,
                            [kind |-> "repeat", proc |-> FromTop(0).code,
                             i |-> 0, n |-> FromTop(1).int])
       /\ (call_stack # <<>> /\ result = "Running" /\ Top(Cur).kind = "repeat")
          => LET loop   == Top(Cur)
                 below  == SubSeq(call_stack, 1, Len(call_stack) - 1)
             IN  /\ loop.i >= 0
                 /\ loop.i <= (IF loop.n > 0 THEN loop.n ELSE 0)
                 /\ result' = "Running"
                 /\ IF loop.i < loop.n
                    THEN /\ operand_stack' = Append(operand_stack, Number(loop.i))
                         /\ call_stack'
                               = below \o <<[loop EXCEPT !.i = loop.i + 1],
                                            ExecuteFrame(parse(loop.proc))>>
                    ELSE /\ operand_stack' = operand_stack
                         /\ call_stack' = below
                 /\ dictionary' = dictionary
                 /\ dict_stack' = dict_stack
                 /\ block_stack' = block_stack
                 /\ block_marks' = block_marks
       /\ \A k \in 1..(Len(call_stack) - 1) :
             (call_stack[k].kind = "repeat" /\ Len(call_stack') >= k)
             => call_stack'[k] = call_stack[k]]_vars

\* `2`, `{ 1 add }` and `repeat` have been typed: the block has run on 0 and
\* on 1, and 1 and 2 are on the stack.
C21_Witness ==
    /\ call_stack # <<>>
    /\ Len(call_stack) = 1
    /\ Top(Cur).kind = "execute"
    /\ Top(Cur).items = <<"repeat">>
    /\ Top(Cur).pc = 2
    /\ result = "Running"
    /\ history = 3
    /\ operand_stack = <<Number(1), Number(2)>>


\* C22: `for` with a Block on top of Numbers limit, increment > 0 and init
\* removes the four and starts a loop at i = init, exhausted from the start
\* when init > limit; each turn of a loop not exhausted pushes Number(i)
\* with i <= limit, evaluates the block, and goes on to i + increment if
\* that does not exceed limit and is exhausted otherwise; the turn of an
\* exhausted loop returns with nothing pushed; no step changes a loop that
\* is waiting for its block.
C22_ForCountsUpToLimit ==
    [][/\ (/\ Calls("for") /\ Len(operand_stack) >= 4
           /\ FromTop(0).type = "Block" /\ FromTop(1).type = "Number"
           /\ FromTop(2).type = "Number" /\ FromTop(3).type = "Number"
           /\ FromTop(2).int > 0)
          => /\ result' = "Running"
             /\ operand_stack' = SubSeq(operand_stack, 1, Len(operand_stack) - 4)
             /\ call_stack'
                   = Append(Taken.call_stack,
                            [kind |-> "for", proc |-> FromTop(0).code,
                             next |-> FromTop(3).int, limit |-> FromTop(1).int,
                             step |-> FromTop(2).int, huge |-> FALSE,
                             done |-> FromTop(3).int > FromTop(1).int])
       /\ (/\ call_stack # <<>> /\ result = "Running" /\ Top(Cur).kind = "for"
           /\ Top(Cur).step > 0 /\ ~Top(Cur).huge)
          => LET loop  == Top(Cur)
                 below == SubSeq(call_stack, 1, Len(call_stack) - 1)
                 more  == /\ loop.limit >= I32Min + loop.step
                          /\ loop.next <= loop.limit - loop.step
             IN  /\ result' = "Running"
                 /\ IF loop.done
                    THEN /\ operand_stack' = operand_stack
                         /\ call_stack' = below
                    ELSE /\ loop.next <= loop.limit
                         /\ operand_stack' = Append(operand_stack, Number(loop.next))
                         /\ call_stack'
                               = below
                                 \o <<IF more
                                      THEN [loop EXCEPT !.next = loop.next + loop.step]
                                      ELSE [loop EXCEPT !.done = TRUE],
                                      ExecuteFrame(parse(loop.proc))>>
                 /\ dictionary' = dictionary
                 /\ dict_stack' = dict_stack
                 /\ block_stack' = block_stack
                 /\ block_marks' = block_marks
       /\ \A k \in 1..(Len(call_stack) - 1) :
             (call_stack[k].kind = "for" /\ Len(call_stack') >= k)
             => call_stack'[k] = call_stack[k]]_vars

\* `1 2 4 { pop } for` is in its second and last turn: 3 is on the stack,
\* the loop is exhausted and the block is about to run.
C22_Witness ==
    /\ Len(call_stack) = 3
    /\ result = "Running"
    /\ call_stack[1].kind = "execute"
    /\ call_stack[1].items = <<"1", "2", "4", "{", "pop", "}", "for">>
    /\ call_stack[2].kind = "for"
    /\ call_stack[2].limit = 4
    /\ call_stack[2].done
    /\ call_stack[3] = ExecuteFrame(<<"pop">>)
    /\ operand_stack = <<Number(3)>>


\* C23: `ifelse` with an else-block on top of a then-block on top of a Bool
\* removes the three and evaluates one block, the then-block when the Bool
\* is true and the else-block when it is false; `if` with a Block on top of
\* a Bool removes the two and evaluates the block once when the Bool is
\* true and evaluates nothing when it is false.
C23_IfAndIfelseChooseByCondition ==
    [][/\ (/\ Calls("ifelse") /\ Len(operand_stack) >= 3
           /\ FromTop(0).type = "Block" /\ FromTop(1).type = "Block"
           /\ FromTop(2).type = "Bool")
          => /\ result' = "Running"
             /\ operand_stack' = SubSeq(operand_stack, 1, Len(operand_stack) - 3)
             /\ call_stack'
                   = Append(Taken.call_stack,
                            ExecuteFrame(parse(IF FromTop(2).bool THEN FromTop(1).code
                                               ELSE FromTop(0).code)))
             /\ dictionary' = dictionary
             /\ dict_stack' = dict_stack
             /\ block_stack' = block_stack
       /\ (/\ Calls("if") /\ Len(operand_stack) >= 2
           /\ FromTop(0).type = "Block" /\ FromTop(1).type = "Bool")
          => /\ result' = "Running"
             /\ operand_stack' = SubSeq(operand_stack, 1, Len(operand_stack) - 2)
             /\ call_stack'
                   = IF FromTop(1).bool
                     THEN Append(Taken.call_stack, ExecuteFrame(parse(FromTop(0).code)))
                     ELSE Taken.call_stack
             /\ dictionary' = dictionary
             /\ dict_stack' = dict_stack
             /\ block_stack' = block_stack]_vars

\* `false { 1 } { 2 } ifelse` has run on the empty stack: 2 alone is on it.
C23_Witness ==
    /\ Len(call_stack) = 1
    /\ Top(Cur).kind = "execute"
    /\ Top(Cur).items = <<"false", "{", "1", "}", "{", "2", "}", "ifelse">>
    /\ Top(Cur).pc = 9
    /\ result = "Running"
    /\ operand_stack = <<Number(2)>>


\* C24: for every integer n, negative, zero or positive, `dict` with
\* Number(n) on top of the stack succeeds and leaves a new empty Dict in its
\* place; and `def` adds its binding to the current dictionary whatever the
\* n it was made with and however many bindings it holds.
C24_DictOfAnyInteger ==
    [][/\ (Calls("dict") /\ Len(operand_stack) >= 1 /\ FromTop(0).type = "Number")
          => /\ result' = "Running"
             /\ operand_stack'
                   = Append(SubSeq(operand_stack, 1, Len(operand_stack) - 1),
                            Dict(EmptyMap))
       /\ (Calls("def") /\ Len(operand_stack) >= 2 /\ FromTop(1).type = "Key")
          => /\ result' = "Running"
             /\ dictionary' = insert(dictionary, FromTop(1).name, FromTop(0))]_vars

\* `-1 dict` has aborted the interpreter: the Number is gone and no Dict is
\* in its place.
C24_NegativeCapacityAborts ==
    /\ "-1 dict" \in input
    /\ history = 1
    /\ result = "Panic"
    /\ operand_stack = <<>>


\* The integer part of the rational num/den (den > 0), toward zero.
TruncatedTowardZero(num, den) ==
    IF num >= 0 THEN num \div den ELSE -((-num) \div den)

\* C25: `cvi` removes the top value; a Number it pushes back unchanged, for
\* a Float it pushes the Number got by truncating toward zero, and for any
\* other variant it pushes nothing and succeeds, the stack one shorter.
C25_CviTruncatesOrDrops ==
    [][(Calls("cvi") /\ Len(operand_stack) >= 1)
       => LET elem == FromTop(0)
              rest == SubSeq(operand_stack, 1, Len(operand_stack) - 1)
          IN  /\ result' = "Running"
              /\ IF elem.type = "Number" THEN operand_stack' = Append(rest, elem)
                 ELSE IF elem.type = "Float"
                      THEN /\ elem.den > 0
                           /\ operand_stack'
                                 = Append(rest, Number(TruncatedTowardZero(elem.num,
                                                                           elem.den)))
                 ELSE operand_stack' = rest
              /\ dictionary' = dictionary
              /\ dict_stack' = dict_stack
              /\ block_stack' = block_stack]_vars

\* `1 0 div cvi` has left 2147483647 where the infinite Float was.
C25_InfinityBecomesI32Max ==
    /\ Len(call_stack) = 1
    /\ Top(Cur).kind = "execute"
    /\ Top(Cur).items = <<"1", "0", "div", "cvi", "pop">>
    /\ Top(Cur).pc = 5
    /\ result = "Running"
    /\ operand_stack = <<Number(I32Max)>>


\* The variants each builtin that coerces its operands takes, the operand on
\* top first, as its function pops and coerces them (operators.rs).
OperandKinds ==
    ("add" :> <<"int", "int">>) @@ ("sub" :> <<"int", "int">>) @@
    ("mul" :> <<"float", "float">>) @@ ("div" :> <<"float", "float">>) @@
    ("neg" :> <<"int">>) @@ ("sqrt" :> <<"float">>) @@
    ("def" :> <<"item", "key">>) @@ ("exec" :> <<"block">>) @@
    ("repeat" :> <<"block", "int">>) @@
    ("for" :> <<"block", "int", "int", "int">>) @@
    ("if" :> <<"block", "bool">>) @@ ("ifelse" :> <<"block", "block", "bool">>) @@
    ("length" :> <<"array">>) @@ ("forall" :> <<"block", "array">>) @@
    ("dict" :> <<"int">>) @@ ("begin" :> <<"dict">>)

\* The item is of a variant the coercion to kind takes.
OfKind(item, kind) ==
    CASE kind = "int"   -> item.type = "Number"
      [] kind = "float" -> item.type \in {"Number", "Float"}
      [] kind = "key"   -> item.type = "Key"
      [] kind = "block" -> item.type = "Block"
      [] kind = "bool"  -> item.type = "Bool"
      [] kind = "array" -> item.type = "Array"
      [] kind = "dict"  -> item.type = "Dict"
      [] OTHER          -> TRUE

\* C26: a builtin that passes its arity gate and has an operand of the wrong
\* variant fails with TypeCheck at once, before any block is evaluated: the
\* current dictionary, the enclosing dictionaries and the capture state are
\* unchanged, nothing is pushed, and the operand stack is the one before
\* the call without its topmost k values, 1 <= k <= arity; a `def` whose
\* key operand is not a Key removes both operands and adds no binding.
C26_WrongVariantFailsWithoutPush ==
    [][\A name \in DOMAIN OperandKinds :
          (/\ Calls(name) /\ Len(operand_stack) >= operators[name]
           /\ \E i \in 1..Len(OperandKinds[name]) :
                 ~OfKind(FromTop(i - 1), OperandKinds[name][i]))
          => /\ result' = "TypeCheck"
             /\ call_stack' = Taken.call_stack
             /\ \E k \in 1..operators[name] :
                   operand_stack' = SubSeq(operand_stack, 1, Len(operand_stack) - k)
             /\ name = "def"
                => operand_stack' = SubSeq(operand_stack, 1, Len(operand_stack) - 2)
             /\ dictionary' = dictionary
             /\ dict_stack' = dict_stack
             /\ block_stack' = block_stack
             /\ block_marks' = block_marks]_vars

\* `2`, `{ 1 add }` and `if` have been typed: `if` has aborted the
\* interpreter on a condition that is no Bool.
C26_IfOnNumberAborts ==
    /\ "if" \in input
    /\ history = 3
    /\ result = "Panic"
    /\ ~overflow_checks
    /\ operand_stack = <<>>
    /\ dictionary = EmptyMap


\* Each "}" of items closes an earlier "{" of items, open of them being
\* open before items, and all are closed at the end.
RECURSIVE BalancedFrom(_, _)
BalancedFrom(items, open) ==
    IF items = <<>> THEN open = 0
    ELSE IF Head(items) = "{" THEN BalancedFrom(Tail(items), open + 1)
    ELSE IF Head(items) = "}" THEN open > 0 /\ BalancedFrom(Tail(items), open - 1)
    ELSE BalancedFrom(Tail(items), open)

\* C27: the Block a closing "}" pushes has brace-balanced text; a block is
\* evaluated (by exec, a control-flow operator or a reference to a named
\* procedure) from Idle and its items are brace-balanced; no SyntaxError
\* arises within the evaluation of a block; and an evaluation that reaches
\* the end of its block returns with depth 0 and the buffer empty.
C27_BlocksAreBraceBalanced ==
    [][/\ (Tok = "}" /\ block_stack # <<>> /\ block_marks <= 1)
          => /\ result' = "Running"
             /\ operand_stack' # <<>>
             /\ operand_stack'[Len(operand_stack')].type = "Block"
             /\ BalancedFrom(parse(operand_stack'[Len(operand_stack')].code), 0)
             /\ block_stack' = <<>>
             /\ block_marks' = 0
       /\ (/\ call_stack # <<>> /\ Len(call_stack') > Len(call_stack)
           /\ call_stack'[Len(call_stack')].kind = "execute")
          => /\ block_stack = <<>> /\ block_marks = 0
             /\ block_stack' = <<>> /\ block_marks' = 0
             /\ BalancedFrom(call_stack'[Len(call_stack')].items, 0)
       /\ (result = "Running" /\ result' = "SyntaxError") => Len(call_stack) = 1
       /\ (/\ Len(call_stack) >= 2 /\ result = "Running"
           /\ Top(Cur).kind = "execute" /\ Top(Cur).pc > Len(Top(Cur).items))
          => /\ block_stack = <<>> /\ block_marks = 0
             /\ block_stack' = <<>> /\ block_marks' = 0
             /\ result' = "Running"]_vars

\* `{ { 1 } } exec exec` has run: the block `{ 1 }` and then the block `1`
\* were evaluated, 1 is on the stack and the capture state is Idle.
C27_Witness ==
    /\ Len(call_stack) = 1
    /\ Top(Cur).kind = "execute"
    /\ Top(Cur).items = <<"{", "{", "1", "}", "}", "exec", "exec", "pop">>
    /\ Top(Cur).pc = 8
    /\ result = "Running"
    /\ operand_stack = <<Number(1)>>
    /\ block_stack = <<>>
    /\ block_marks = 0

====
